---- MODULE Spec2Model ----
(***************************************************************************)
(* Execution-coordination layer of the multi-agent testing backend:        *)
(*   - the synchronous endpoint run_graph_sync guarded by redis_lock,      *)
(*   - the asynchronous path: run_graph_async, the Celery task             *)
(*     execute_graph_async with autoretry, cancel_run, the task_revoked    *)
(*     handler and the periodic sweep recover_orphan_runs.                 *)
(* Time is discrete.  In the synchronous part one tick is TickSeconds      *)
(* seconds; in the asynchronous part the two timeouts of the sweep are     *)
(* abstracted into "the row has become older than the cutoff" events.      *)
(***************************************************************************)
EXTENDS Integers, FiniteSets, Sequences, TLC

(***************************************************************************)
(* Bounds of the model                                                     *)
(***************************************************************************)
MaxReqs == 2          \* synchronous requests
NumGraphs == 2        \* graph ids the synchronous requests may target
MaxExecTicks == 4     \* longest execute_graph call of a synchronous request, in ticks
TickSeconds == 10     \* seconds per tick of the synchronous part
MaxRuns == 1          \* run records inserted by run_graph_async
NumNodes == 2         \* nodes of the executed graph
MaxNodes == 3         \* declared nodes of a graph handed to GraphRunner.run
MaxEdges == 2         \* entries of the graph's edge list
NumRunners == 2       \* GraphRunner objects alive at the same time in chaos mode
NumSeeds == 2         \* seeds the runners may be given
MaxChaosNodes == 2    \* declared nodes of the graph run in chaos mode
MaxChaosEdges == 1    \* entries of the edge list of the graph run in chaos mode
RngRange == 4         \* resolution of rng.random(): the values k/RngRange, k < RngRange
MaxAssertions == 2    \* assertions in the list given to AssertionEngine.evaluate
MaxClock == 1         \* ticks of the clock between two calls of the validator
MaxMeasure == 2       \* largest latency, cost or threshold value
MaxLost == 1          \* times the worker process running a job is lost, per job
MaxLog == 3           \* entries of the state machine's log when driven directly

(***************************************************************************)
(* Program constants                                                       *)
(***************************************************************************)
SyncLockTtl == 30         \* runs.py: redis_lock(lock_key, ttl=30)
LockWaitTimeout == 10     \* locks.py: wait_timeout: int = 10
max_retries == 3          \* tasks.py: execute_graph_async max_retries=3

Reqs == 1..MaxReqs
Graphs == 1..NumGraphs
Runs == 1..MaxRuns

TtlTicks == SyncLockTtl \div TickSeconds
WaitTicks == LockWaitTimeout \div TickSeconds

VARIABLES
    \* ---- synchronous path ----
    lockOwner,      \* Redis key lock:graph:<g>:run -> the request whose token it holds, 0 when absent
    lockTtl,        \* remaining ticks before the key expires
    reqPc,          \* position of each synchronous request in run_graph_sync
    reqGraph,       \* graph_id of the request (0 before it arrives)
    reqWaited,      \* ticks spent inside lock.acquire
    reqAcquired,    \* redis_lock's local `acquired`: "unknown" before acquire returns, "yes", "no"
    reqExecTicks,   \* ticks spent so far inside the current execute_graph call
    reqTrace,       \* status of the trace execute_graph returned ("none", "raised")
    reqReleases,    \* lock.release() attempts of the request
    reqReleaseError,
                    \* lock.release() of the request raised LockError (swallowed by redis_lock)
    reqResp,        \* HTTP status answered (0 = not yet)
    syncRecord,     \* status of the test_runs row the request inserted ("none" = no row)
    syncExecCalls,  \* calls of execute_graph made by the request
    syncEnqueued,   \* execute_graph_async jobs the request dispatched
    \* ---- asynchronous path: table test_runs ----
    numRuns,        \* rows inserted so far (ids 1..numRuns)
    asyncResponse,  \* status in the AsyncExecutionResponse whose run_id is the row's id
                    \* ("none" = no such response)
    status,         \* test_runs.status ("none" = no such row)
    createdOld,     \* created_at < now - queued_timeout
    startedAt,      \* started_at: "null", "fresh", or "old" (< now - running_timeout)
    errorBy,        \* history: which code wrote the current status error:
                    \* "handler" (except clause), "sweep", "trace" (stored trace), else "none"
    tenantMatch,    \* the run's tenant_id is the tenant of its graph row
    webhook,        \* webhook_url is set
    \* ---- Redis ----
    cancelFlag,     \* key cancelled_run:<id> exists
    \* ---- Celery queue and workers: one job per (run, dispatcher) ----
    jobPc,          \* "none", "queued", "claimed", "exec", "store", "handler", or how it ended
    jobRetries,     \* self.request.retries
    jobAttempts,    \* history: times a worker has started the task body for the job
    jobNodes,       \* nodes executed by the current attempt
    jobTrace,       \* status of the trace the current attempt got from execute_graph
    runFailedSent,  \* send_webhook jobs with event run_failed, per run
    runCompletedSent, \* send_webhook jobs with event run_completed, per run
    \* ---- recover_orphan_runs (one invocation at a time) ----
    sweepPc,        \* "idle", "queued" (first loop), "running" (second loop)
    sweepQueued,    \* rows returned by the first SELECT
    sweepRunning,   \* rows returned by the second SELECT
    sweepTodo,      \* rows of the current loop not yet visited
    sweepWrites,    \* uncommitted UPDATEs of the sweep's transaction: "none", "retry", "error"
    sweepDispatched,
                    \* jobs dispatched by this invocation, per run
    \* ---- GraphRunner.run ----
    runPc,          \* position of the call of run(): "idle", "init", "sort", "loop", "node",
                    \* "assert", "returned" (a trace was returned), "raised" (run() raised)
    graphNodes,     \* number of declared nodes; their ids are 1..graphNodes
    graphEdges,     \* graph["edges"] as a list of <<from, to>>
    timeout_set,    \* self.timeout_seconds is set (and not 0)
    over_budget,    \* time.perf_counter() - total_start > self.timeout_seconds
    execution_order,\* result of _topological_sort
    loopIdx,        \* index in execution_order of the current iteration of the node loop
    node_states,    \* state_machine.nodes ("absent" = no entry)
    transitions,    \* state_machine.transitions, the log of StateTransition records
    agent_outputs,  \* trace.agent_outputs, as the list of their node ids
    run_context,    \* the keys of `context`, the local dict of run()
    contract_violations,
                    \* trace.contract_violations, as the set of severities recorded
    assertion_results,
                    \* trace.assertion_results: "none", "all_passed" or "some_failed"
    trace_status,   \* trace.status
    trace_error,    \* trace.error ("null", or the kind of message)
    startedAfterBudget,
                    \* history: a node was started when the budget was already exceeded
    \* ---- GraphRunner objects in chaos mode, all given the same graph ----
    chaosNodes,     \* number of declared nodes of the graph (0 = not loaded yet)
    chaosEdges,     \* graph["edges"]
    chaosInputs,    \* node["inputs"] of every node, as a list of node ids
    chaos_config,   \* drop_rate and corrupt_rate, in units of 1/RngRange
    chPc,           \* per runner: "none", "constructed", "running", "done", "error"
    chSeed,         \* self.seed
    chMode,         \* self.mode
    chOrder,        \* execution_order of the runner's run
    chIdx,          \* index of the next node in chOrder
    chOutputs,      \* trace.agent_outputs: <<node id, input_data>> per executed node
    rngSeed,        \* seed of each generator: index 0 is the module-level `random`,
                    \* index i the runner's own self._random
    rngPos,         \* numbers drawn from each generator since it was seeded
    \* ---- AssertionEngine ----
    custom_assertions,
                    \* names registered with register_custom
    evalPc,         \* the call of evaluate: "idle", "running", "returned", "raised"
    evalAssertions, \* the list of assertions given to evaluate
    evalIdx,        \* index of the assertion the loop is at
    evalResults,    \* the list `results`
    \* ---- ContractValidator ----
    valPc,          \* "idle", "defined" (a contract is at hand), "returned", "raised",
                    \* "returned_twice" (validate_output was called a second time)
    valContract,    \* the contract
    valData,        \* output_data given to validate_output ("none" for validate_input)
    valContext,     \* context given to validate_input: node -> output, or "absent"
    valPreds,       \* nodes with an edge into the contract's target
    valResult,      \* the list of violations returned by the last call
    valFirst,       \* the list returned by the first of two validate_output calls
    clock,          \* datetime.now(UTC), in ticks
    \* ---- AssertionEngine.evaluate on the context and outputs of a run ----
    resPc,          \* "idle", "ran" (the node loop of run() is over), "evaluated"
    resOutput,      \* the AgentOutput of node "A" (or that the node was not executed)
    resAssertion,   \* the assertion: type, target, field, expected
    resActual,      \* `actual` as resolved by lines 418-432
    resPassed       \* `passed` as returned by the handler

runnerVars == <<runPc, graphNodes, graphEdges, timeout_set, over_budget, execution_order,
                loopIdx, node_states, transitions, agent_outputs, run_context,
                contract_violations, assertion_results, trace_status, trace_error, startedAfterBudget>>

assertVars == <<custom_assertions, evalPc, evalAssertions, evalIdx, evalResults>>

contractVars == <<valPc, valContract, valData, valContext, valPreds, valResult, valFirst,
                  clock>>

resolveVars == <<resPc, resOutput, resAssertion, resActual, resPassed>>

engineVars == <<assertVars, contractVars, resolveVars>>

chaosVars == <<chaosNodes, chaosEdges, chaosInputs, chaos_config, chPc, chSeed, chMode, chOrder,
               chIdx, chOutputs, rngSeed, rngPos>>

syncVars == <<lockOwner, lockTtl, reqPc, reqGraph, reqWaited, reqAcquired, reqExecTicks, reqTrace,
              reqReleases, reqReleaseError, reqResp, syncRecord, syncExecCalls, syncEnqueued>>

asyncVars == <<numRuns, asyncResponse, status, createdOld, startedAt, errorBy, tenantMatch, webhook,
               cancelFlag, jobPc, jobRetries, jobAttempts, jobNodes, jobTrace, runFailedSent,
               runCompletedSent, sweepPc, sweepQueued, sweepRunning, sweepTodo, sweepWrites,
               sweepDispatched>>

vars == <<syncVars, asyncVars, runnerVars, chaosVars, engineVars>>

TraceStatus == {"passed", "failed", "error"}

(***************************************************************************)
(* utils/locks.py and the redis-py Lock it drives                          *)
(***************************************************************************)

\* lock.acquire(blocking=True): SET NX succeeds iff the key is absent
do_acquire(g) == lockOwner[g] = 0

\* the acquire loop gives up once blocking_timeout has elapsed
acquire_timed_out(q) == reqWaited[q] >= WaitTicks

\* mutant: the result of acquire is not checked
redis_lock_unchecked(acquired) == TRUE

\* redis_lock, line 26: `if not acquired: raise RedisLockError`; the body runs otherwise
redis_lock_enters_body(acquired) == acquired

\* lock.release(): the key is deleted only when it still holds the caller's token
\* (otherwise LockNotOwnedError, a LockError, which redis_lock swallows)
lock_release(q, g) ==
    [h \in Graphs |-> IF h = g /\ lockOwner[h] = q THEN 0 ELSE lockOwner[h]]

InitSync ==
    /\ lockOwner = [g \in Graphs |-> 0]
    /\ lockTtl = [g \in Graphs |-> 0]
    /\ reqPc = [q \in Reqs |-> "idle"]
    /\ reqGraph = [q \in Reqs |-> 0]
    /\ reqWaited = [q \in Reqs |-> 0]
    /\ reqAcquired = [q \in Reqs |-> "unknown"]
    /\ reqExecTicks = [q \in Reqs |-> 0]
    /\ reqTrace = [q \in Reqs |-> "none"]
    /\ reqReleases = [q \in Reqs |-> 0]
    /\ reqReleaseError = [q \in Reqs |-> FALSE]
    /\ reqResp = [q \in Reqs |-> 0]
    /\ syncRecord = [q \in Reqs |-> "none"]
    /\ syncExecCalls = [q \in Reqs |-> 0]
    /\ syncEnqueued = [q \in Reqs |-> 0]

\* POST /{graph_id}/execute arrives and reaches `with redis_lock(lock_key, ttl=30)`
\* (requests are numbered in the order of their arrival)
run_graph_sync_begin(q, g) ==
    /\ reqPc[q] = "idle"
    /\ \A p \in Reqs : p < q => reqPc[p] # "idle"
    /\ reqPc' = [reqPc EXCEPT ![q] = "acquire"]
    /\ reqGraph' = [reqGraph EXCEPT ![q] = g]
    /\ UNCHANGED <<lockOwner, lockTtl, reqWaited, reqAcquired, reqExecTicks, reqTrace,
                   reqReleases, reqReleaseError, reqResp, syncRecord, syncExecCalls, syncEnqueued, asyncVars, runnerVars, chaosVars, engineVars>>

\* redis_lock, lines 24-27: lock.acquire returns (the key was taken, or the wait window
\* elapsed with the key still held); on success the body of run_graph_sync's with block
\* starts and calls execute_graph, otherwise RedisLockError becomes HTTP 429
redis_lock_enter(q) ==
    /\ reqPc[q] = "acquire"
    /\ do_acquire(reqGraph[q]) \/ acquire_timed_out(q)
    /\ reqAcquired' = [reqAcquired EXCEPT ![q] = IF do_acquire(reqGraph[q]) THEN "yes" ELSE "no"]
    /\ lockOwner' = [lockOwner EXCEPT ![reqGraph[q]] =
                        IF do_acquire(reqGraph[q]) THEN q ELSE @]
    /\ lockTtl' = [lockTtl EXCEPT ![reqGraph[q]] =
                        IF do_acquire(reqGraph[q]) THEN TtlTicks ELSE @]
    /\ IF redis_lock_enters_body(do_acquire(reqGraph[q]))
       THEN /\ reqPc' = [reqPc EXCEPT ![q] = "exec"]
            /\ syncExecCalls' = [syncExecCalls EXCEPT ![q] = @ + 1]
            /\ UNCHANGED reqResp
       ELSE /\ reqPc' = [reqPc EXCEPT ![q] = "done"]
            /\ reqResp' = [reqResp EXCEPT ![q] = 429]
            /\ UNCHANGED syncExecCalls
    /\ UNCHANGED <<reqGraph, reqWaited, reqExecTicks, reqTrace, reqReleases, reqReleaseError,
                   syncRecord, syncEnqueued, asyncVars, runnerVars, chaosVars, engineVars>>

\* execute_graph returns a trace (GraphRunner.run ends passed, failed or error)
execute_graph_returns(q, st) ==
    /\ reqPc[q] = "exec"
    /\ reqTrace' = [reqTrace EXCEPT ![q] = st]
    /\ reqPc' = [reqPc EXCEPT ![q] = "release"]
    /\ reqExecTicks' = [reqExecTicks EXCEPT ![q] = 0]
    /\ UNCHANGED <<lockOwner, lockTtl, reqGraph, reqWaited, reqAcquired,
                   reqReleases, reqReleaseError, reqResp, syncRecord, syncExecCalls, syncEnqueued, asyncVars, runnerVars, chaosVars, engineVars>>

\* execute_graph raises (e.g. ExecutionMode(config["mode"]) on an unknown mode)
execute_graph_raises(q) ==
    /\ reqPc[q] = "exec"
    /\ reqTrace' = [reqTrace EXCEPT ![q] = "raised"]
    /\ reqPc' = [reqPc EXCEPT ![q] = "release"]
    /\ reqExecTicks' = [reqExecTicks EXCEPT ![q] = 0]
    /\ UNCHANGED <<lockOwner, lockTtl, reqGraph, reqWaited, reqAcquired,
                   reqReleases, reqReleaseError, reqResp, syncRecord, syncExecCalls, syncEnqueued, asyncVars, runnerVars, chaosVars, engineVars>>

\* lock.release() raises LockNotOwnedError (a LockError) when the key no longer holds
\* the caller's token: it expired, or expired and was taken by another request
release_raises(q, g) == lockOwner[g] # q

\* mutant: a LockError of release() propagates out of the context manager
redis_lock_outcome_unswallowed(bodyRaised, releaseRaised) ==
    IF bodyRaised \/ releaseRaised THEN "raised" ELSE "returned"

\* redis_lock, lines 29-36: `except redis.exceptions.LockError: pass` inside finally,
\* so the with statement ends the way its body ended
redis_lock_outcome(bodyRaised, releaseRaised) ==
    IF bodyRaised THEN "raised" ELSE "returned"

\* redis_lock, finally: lock.release(), LockError swallowed
redis_lock_exit(q) ==
    /\ reqPc[q] = "release"
    /\ lockOwner' = lock_release(q, reqGraph[q])
    /\ lockTtl' = [h \in Graphs |-> IF lock_release(q, reqGraph[q])[h] = 0 THEN 0 ELSE lockTtl[h]]
    /\ reqReleases' = [reqReleases EXCEPT ![q] = @ + 1]
    /\ reqReleaseError' = [reqReleaseError EXCEPT ![q] = release_raises(q, reqGraph[q])]
    /\ LET outcome == redis_lock_outcome(reqTrace[q] = "raised",
                                         release_raises(q, reqGraph[q]))
       IN  /\ reqPc' = [reqPc EXCEPT ![q] = IF outcome = "raised" THEN "done" ELSE "persist"]
           /\ reqResp' = [reqResp EXCEPT ![q] = IF outcome = "raised" THEN 500 ELSE @]
    /\ UNCHANGED <<reqGraph, reqWaited, reqAcquired, reqExecTicks, reqTrace, syncRecord,
                   syncExecCalls, syncEnqueued, asyncVars, runnerVars, chaosVars, engineVars>>

\* run_graph_sync after the with block: insert the run row with the trace's status,
\* persist_trace, commit, answer 200
run_graph_sync_persist(q) ==
    /\ reqPc[q] = "persist"
    /\ syncRecord' = [syncRecord EXCEPT ![q] = reqTrace[q]]
    /\ reqResp' = [reqResp EXCEPT ![q] = 200]
    /\ reqPc' = [reqPc EXCEPT ![q] = "done"]
    /\ UNCHANGED <<lockOwner, lockTtl, reqGraph, reqWaited, reqAcquired, reqExecTicks, reqTrace,
                   reqReleases, reqReleaseError, syncExecCalls, syncEnqueued, asyncVars, runnerVars, chaosVars, engineVars>>

\* TickSeconds seconds pass.  The acquire loop polls every 0.1 s, so a request that can
\* take the key or has used up its wait window acts before the tick.
SyncTick ==
    /\ \E q \in Reqs : reqPc[q] \in {"acquire", "exec"}
    /\ \A q \in Reqs : reqPc[q] = "acquire" =>
            /\ ~do_acquire(reqGraph[q])
            /\ ~acquire_timed_out(q)
    /\ \A q \in Reqs : reqPc[q] = "exec" => reqExecTicks[q] < MaxExecTicks
    /\ lockTtl' = [g \in Graphs |-> IF lockTtl[g] > 0 THEN lockTtl[g] - 1 ELSE 0]
    /\ lockOwner' = [g \in Graphs |-> IF lockTtl[g] <= 1 THEN 0 ELSE lockOwner[g]]
    /\ reqWaited' = [q \in Reqs |-> IF reqPc[q] = "acquire" THEN reqWaited[q] + 1
                                    ELSE reqWaited[q]]
    /\ reqExecTicks' = [q \in Reqs |-> IF reqPc[q] = "exec" THEN reqExecTicks[q] + 1
                                       ELSE reqExecTicks[q]]
    /\ UNCHANGED <<reqPc, reqGraph, reqAcquired, reqTrace, reqReleases, reqReleaseError, reqResp, syncRecord,
                   syncExecCalls, syncEnqueued, asyncVars, runnerVars, chaosVars, engineVars>>

SyncNext ==
    \/ \E q \in Reqs, g \in Graphs : run_graph_sync_begin(q, g)
    \/ \E q \in Reqs : redis_lock_enter(q)
    \/ \E q \in Reqs, st \in TraceStatus : execute_graph_returns(q, st)
    \/ \E q \in Reqs : execute_graph_raises(q)
    \/ \E q \in Reqs : redis_lock_exit(q)
    \/ \E q \in Reqs : run_graph_sync_persist(q)
    \/ SyncTick

(***************************************************************************)
(* Asynchronous path                                                       *)
(***************************************************************************)
Dispatchers == {"api", "sweep"}
JobIds == Runs \X Dispatchers

runOf(j) == j[1]

InitAsync ==
    /\ numRuns = 0
    /\ asyncResponse = [r \in Runs |-> "none"]
    /\ status = [r \in Runs |-> "none"]
    /\ createdOld = [r \in Runs |-> FALSE]
    /\ startedAt = [r \in Runs |-> "null"]
    /\ errorBy = [r \in Runs |-> "none"]
    /\ tenantMatch = [r \in Runs |-> TRUE]
    /\ webhook = [r \in Runs |-> FALSE]
    /\ cancelFlag = [r \in Runs |-> FALSE]
    /\ jobPc = [j \in JobIds |-> "none"]
    /\ jobRetries = [j \in JobIds |-> 0]
    /\ jobAttempts = [j \in JobIds |-> 0]
    /\ jobNodes = [j \in JobIds |-> 0]
    /\ jobTrace = [j \in JobIds |-> "none"]
    /\ runFailedSent = [r \in Runs |-> 0]
    /\ runCompletedSent = [r \in Runs |-> 0]
    /\ sweepPc = "idle"
    /\ sweepQueued = {}
    /\ sweepRunning = {}
    /\ sweepTodo = {}
    /\ sweepWrites = [r \in Runs |-> "none"]
    /\ sweepDispatched = [r \in Runs |-> 0]

sweepState == <<sweepPc, sweepQueued, sweepRunning, sweepTodo, sweepWrites, sweepDispatched>>
rowState == <<status, createdOld, startedAt, errorBy>>
notifState == <<runFailedSent, runCompletedSent>>

\* A row the open transaction of the sweep has updated is locked until the sweep commits:
\* UPDATEs of other sessions on it wait.
RowLocked(r) == sweepWrites[r] # "none"

\* line 184: the primary key of the inserted row
run_db_id == numRuns + 1

\* mutant: the job is dispatched and the response given, but no row is committed
run_graph_async_without_row(match, hook, importable) ==
    /\ numRuns < MaxRuns
    /\ importable
    /\ jobPc[<<run_db_id, "api">>] = "none"
    /\ jobPc' = [jobPc EXCEPT ![<<run_db_id, "api">>] = "queued"]
    /\ asyncResponse' = [asyncResponse EXCEPT ![run_db_id] = "queued"]
    /\ tenantMatch' = [tenantMatch EXCEPT ![run_db_id] = match]
    /\ webhook' = [webhook EXCEPT ![run_db_id] = hook]
    /\ UNCHANGED <<numRuns, rowState, cancelFlag, jobRetries, jobAttempts, jobNodes, jobTrace,
                   notifState, sweepState>>
    /\ UNCHANGED <<syncVars, runnerVars, chaosVars, engineVars>>

\* lines 169-220 of run_graph_async: insert the row with status queued, commit, dispatch
\* the job with run_id = run_db_id and answer with that id and status queued; when
\* app.workers.tasks cannot be imported nothing is dispatched and the answer carries a
\* random uuid and status warning.
\* tenant_id is config.tenant_id or the user's tenant, so it may differ from the tenant
\* of the graph row.
run_graph_async(match, hook, importable) ==
    /\ numRuns < MaxRuns
    /\ numRuns' = run_db_id
    /\ status' = [status EXCEPT ![run_db_id] = "queued"]
    /\ tenantMatch' = [tenantMatch EXCEPT ![run_db_id] = match]
    /\ webhook' = [webhook EXCEPT ![run_db_id] = hook]
    /\ IF importable
       THEN /\ jobPc' = [jobPc EXCEPT ![<<run_db_id, "api">>] = "queued"]
            /\ asyncResponse' = [asyncResponse EXCEPT ![run_db_id] = "queued"]
       ELSE UNCHANGED <<jobPc, asyncResponse>>
    /\ UNCHANGED <<createdOld, startedAt, errorBy, cancelFlag, jobRetries, jobAttempts, jobNodes,
                   jobTrace, notifState, sweepState>>
    /\ UNCHANGED <<syncVars, runnerVars, chaosVars, engineVars>>

\* time passes: created_at falls behind the queueing cutoff
age_created(r) ==
    /\ status[r] # "none"
    /\ ~createdOld[r]
    /\ createdOld' = [createdOld EXCEPT ![r] = TRUE]
    /\ UNCHANGED <<numRuns, asyncResponse, status, startedAt, errorBy, tenantMatch, webhook, cancelFlag,
                   jobPc, jobRetries, jobAttempts, jobNodes, jobTrace, notifState, sweepState>>
    /\ UNCHANGED <<syncVars, runnerVars, chaosVars, engineVars>>

\* time passes: started_at falls behind the execution cutoff
age_started(r) ==
    /\ startedAt[r] = "fresh"
    /\ startedAt' = [startedAt EXCEPT ![r] = "old"]
    /\ UNCHANGED <<numRuns, asyncResponse, status, createdOld, errorBy, tenantMatch, webhook, cancelFlag,
                   jobPc, jobRetries, jobAttempts, jobNodes, jobTrace, notifState, sweepState>>
    /\ UNCHANGED <<syncVars, runnerVars, chaosVars, engineVars>>

\* the key set by setex(..., 3600, "1") expires
cancel_flag_expires(r) ==
    /\ cancelFlag[r]
    /\ cancelFlag' = [cancelFlag EXCEPT ![r] = FALSE]
    /\ UNCHANGED <<numRuns, asyncResponse, rowState, tenantMatch, webhook, jobPc, jobRetries, jobAttempts, jobNodes,
                   jobTrace, notifState, sweepState>>
    /\ UNCHANGED <<syncVars, runnerVars, chaosVars, engineVars>>

(***************************************************************************)
(* workers/tasks.py: execute_graph_async                                   *)
(***************************************************************************)

\* UPDATE test_runs SET column = value WHERE id = r (lines 160-172, 211-215): a row
\* that was deleted is not brought back
update_by_id(column, r, value) ==
    IF status[r] = "none" THEN column ELSE [column EXCEPT ![r] = value]

\* mutant: the worker does not see the flag
is_cancelled_ignored(r) == FALSE

\* is_cancelled(run_id), consulted at line 126 only
is_cancelled(r) == cancelFlag[r]

\* mutant: the guarded update matches the row whatever its status
guard_matches_any_status(r) == status[r] # "none"

\* the WHERE clause of the guarded update, lines 136-137
guard_matches(r) == status[r] \in {"queued", "retry", "running"}

\* autoretry_for=(Exception,), max_retries=3: Task.retry re-publishes the job while
\* request.retries < max_retries
retry_allowed(j) == jobRetries[j] < max_retries

\* deliveries of the job's message beyond the first one and the retries
redeliveries(j) == jobAttempts[j] - jobRetries[j] - 1

\* lines 125-130: a worker takes the job and checks the cancellation flag
worker_start(j) ==
    /\ jobPc[j] = "queued"
    /\ jobPc' = [jobPc EXCEPT ![j] = IF is_cancelled(runOf(j)) THEN "cancelled" ELSE "claimed"]
    /\ jobAttempts' = [jobAttempts EXCEPT ![j] = @ + 1]
    /\ jobNodes' = [jobNodes EXCEPT ![j] = 0]
    /\ jobTrace' = [jobTrace EXCEPT ![j] = "none"]
    /\ UNCHANGED <<numRuns, asyncResponse, rowState, tenantMatch, webhook, cancelFlag, jobRetries,
                   notifState, sweepState>>
    /\ UNCHANGED <<syncVars, runnerVars, chaosVars, engineVars>>

\* lines 132-146: UPDATE ... WHERE id = run_id AND status IN (queued, retry, running)
worker_guard(j) ==
    /\ jobPc[j] = "claimed"
    /\ ~RowLocked(runOf(j))
    /\ IF guard_matches(runOf(j))
       THEN /\ status' = [status EXCEPT ![runOf(j)] = "running"]
            /\ startedAt' = [startedAt EXCEPT ![runOf(j)] = "fresh"]
            /\ errorBy' = [errorBy EXCEPT ![runOf(j)] = "none"]
            /\ jobPc' = [jobPc EXCEPT ![j] = "exec"]
       ELSE /\ jobPc' = [jobPc EXCEPT ![j] = "skipped"]
            /\ UNCHANGED <<status, startedAt, errorBy>>
    /\ UNCHANGED <<numRuns, asyncResponse, createdOld, tenantMatch, webhook, cancelFlag,
                   jobRetries, jobAttempts, jobNodes, jobTrace, notifState, sweepState>>
    /\ UNCHANGED <<syncVars, runnerVars, chaosVars, engineVars>>

\* line 149, inside execute_graph: GraphRunner.run executes the next node
worker_exec_node(j) ==
    /\ jobPc[j] = "exec"
    /\ jobNodes[j] < NumNodes
    /\ jobNodes' = [jobNodes EXCEPT ![j] = @ + 1]
    /\ UNCHANGED <<numRuns, asyncResponse, rowState, tenantMatch, webhook, cancelFlag, jobPc, jobRetries, jobAttempts,
                   jobTrace, notifState, sweepState>>
    /\ UNCHANGED <<syncVars, runnerVars, chaosVars, engineVars>>

\* line 149: execute_graph returns the trace: passed or failed after the last node,
\* error at any point (cycle, node failure, timeout)
worker_exec_returns(j, st) ==
    /\ jobPc[j] = "exec"
    /\ st \in {"passed", "failed"} => jobNodes[j] = NumNodes
    /\ jobTrace' = [jobTrace EXCEPT ![j] = st]
    /\ jobPc' = [jobPc EXCEPT ![j] = "store"]
    /\ UNCHANGED <<numRuns, asyncResponse, rowState, tenantMatch, webhook, cancelFlag, jobRetries, jobAttempts, jobNodes,
                   notifState, sweepState>>
    /\ UNCHANGED <<syncVars, runnerVars, chaosVars, engineVars>>

\* mutant: a trace with status error is notified as run_failed
worker_store_error_as_failure(j) ==
    /\ jobPc[j] = "store"
    /\ ~RowLocked(runOf(j))
    /\ status' = update_by_id(status, runOf(j), jobTrace[j])
    /\ errorBy' = update_by_id(errorBy, runOf(j),
                               IF jobTrace[j] = "error" THEN "trace" ELSE "none")
    /\ runCompletedSent' = [runCompletedSent EXCEPT ![runOf(j)] =
                               IF webhook[runOf(j)] /\ jobTrace[j] # "error" THEN @ + 1 ELSE @]
    /\ runFailedSent' = [runFailedSent EXCEPT ![runOf(j)] =
                            IF webhook[runOf(j)] /\ jobTrace[j] = "error" THEN @ + 1 ELSE @]
    /\ jobPc' = [jobPc EXCEPT ![j] = "finished"]
    /\ jobNodes' = [jobNodes EXCEPT ![j] = 0]
    /\ jobTrace' = [jobTrace EXCEPT ![j] = "none"]
    /\ UNCHANGED <<numRuns, asyncResponse, createdOld, startedAt, tenantMatch, webhook,
                   cancelFlag, jobRetries, jobAttempts, sweepState>>
    /\ UNCHANGED <<syncVars, runnerVars, chaosVars, engineVars>>

\* lines 152-204: UPDATE ... WHERE id = run_id SET status = trace.status, persist_trace,
\* commit, then the run_completed webhook
worker_store(j) ==
    /\ jobPc[j] = "store"
    /\ ~RowLocked(runOf(j))
    /\ status' = update_by_id(status, runOf(j), jobTrace[j])
    /\ errorBy' = update_by_id(errorBy, runOf(j),
                               IF jobTrace[j] = "error" THEN "trace" ELSE "none")
    /\ runCompletedSent' = [runCompletedSent EXCEPT ![runOf(j)] =
                               IF webhook[runOf(j)] THEN @ + 1 ELSE @]
    /\ jobPc' = [jobPc EXCEPT ![j] = "finished"]
    /\ jobNodes' = [jobNodes EXCEPT ![j] = 0]
    /\ jobTrace' = [jobTrace EXCEPT ![j] = "none"]
    /\ UNCHANGED <<numRuns, asyncResponse, createdOld, startedAt, tenantMatch, webhook,
                   cancelFlag, jobRetries, jobAttempts, runFailedSent, sweepState>>
    /\ UNCHANGED <<syncVars, runnerVars, chaosVars, engineVars>>

\* an exception is raised inside the try block, lines 125-204: the session or the guarded
\* update fails, execute_graph, to_dict or persist_trace raises (the uncommitted UPDATE of
\* lines 160-172 is then rolled back by db.close())
worker_raises(j) ==
    /\ jobPc[j] \in {"claimed", "exec", "store"}
    /\ jobPc' = [jobPc EXCEPT ![j] = "handler"]
    /\ jobNodes' = [jobNodes EXCEPT ![j] = 0]
    /\ jobTrace' = [jobTrace EXCEPT ![j] = "none"]
    /\ UNCHANGED <<numRuns, asyncResponse, rowState, tenantMatch, webhook, cancelFlag, jobRetries, jobAttempts,
                   notifState, sweepState>>
    /\ UNCHANGED <<syncVars, runnerVars, chaosVars, engineVars>>

\* lines 206-232: the except clause marks the run error, dispatches run_failed and
\* re-raises; autoretry then re-publishes the job or gives up
worker_handler(j) ==
    /\ jobPc[j] = "handler"
    /\ ~RowLocked(runOf(j))
    /\ status' = update_by_id(status, runOf(j), "error")
    /\ errorBy' = update_by_id(errorBy, runOf(j), "handler")
    /\ runFailedSent' = [runFailedSent EXCEPT ![runOf(j)] =
                            IF webhook[runOf(j)] THEN @ + 1 ELSE @]
    /\ IF retry_allowed(j)
       THEN /\ jobPc' = [jobPc EXCEPT ![j] = "queued"]
            /\ jobRetries' = [jobRetries EXCEPT ![j] = @ + 1]
       ELSE /\ jobPc' = [jobPc EXCEPT ![j] = "gave_up"]
            /\ UNCHANGED jobRetries
    /\ UNCHANGED jobAttempts
    /\ UNCHANGED <<numRuns, asyncResponse, createdOld, startedAt, tenantMatch, webhook, cancelFlag, jobNodes,
                   jobTrace, runCompletedSent, sweepState>>
    /\ UNCHANGED <<syncVars, runnerVars, chaosVars, engineVars>>

\* lines 70-73: a queued task is revoked; the task_revoked handler sets the flag
task_revoked(j) ==
    /\ jobPc[j] = "queued"
    /\ jobPc' = [jobPc EXCEPT ![j] = "revoked"]
    /\ cancelFlag' = [cancelFlag EXCEPT ![runOf(j)] = TRUE]
    /\ UNCHANGED <<numRuns, asyncResponse, rowState, tenantMatch, webhook, jobRetries, jobAttempts, jobNodes, jobTrace,
                   notifState, sweepState>>
    /\ UNCHANGED <<syncVars, runnerVars, chaosVars, engineVars>>

\* task_acks_late and task_reject_on_worker_lost (lines 45-46): the message of a job is
\* acknowledged only when the task returns, and when the worker process running it is
\* lost (killed) the message is requeued as it was delivered, with the same
\* request.retries; the open transaction is rolled back
worker_lost(j) ==
    /\ jobPc[j] \in {"claimed", "exec", "store", "handler"}
    /\ redeliveries(j) < MaxLost
    /\ jobPc' = [jobPc EXCEPT ![j] = "queued"]
    /\ jobNodes' = [jobNodes EXCEPT ![j] = 0]
    /\ jobTrace' = [jobTrace EXCEPT ![j] = "none"]
    /\ UNCHANGED <<numRuns, asyncResponse, rowState, tenantMatch, webhook, cancelFlag, jobRetries,
                   jobAttempts, notifState, sweepState>>
    /\ UNCHANGED <<syncVars, runnerVars, chaosVars, engineVars>>

\* the broker loses a queued message
job_lost(j) ==
    /\ jobPc[j] = "queued"
    /\ jobPc' = [jobPc EXCEPT ![j] = "lost"]
    /\ UNCHANGED <<numRuns, asyncResponse, rowState, tenantMatch, webhook, cancelFlag, jobRetries, jobAttempts, jobNodes,
                   jobTrace, notifState, sweepState>>
    /\ UNCHANGED <<syncVars, runnerVars, chaosVars, engineVars>>

(***************************************************************************)
(* workers/tasks.py: recover_orphan_runs                                   *)
(***************************************************************************)

\* the status the sweep's session reads: its own uncommitted UPDATE, else the committed row
sweep_sees(r) == IF sweepWrites[r] # "none" THEN sweepWrites[r] ELSE status[r]

\* mutant: the created_at cutoff is dropped from the first SELECT
stuck_queued_no_cutoff(r) == sweep_sees(r) = "queued"

\* lines 323-327: status == "queued" AND created_at < queue_cutoff
stuck_queued(r) == sweep_sees(r) = "queued" /\ createdOld[r]

\* lines 329-341: the graph version or graph row of the run's tenant exists
graph_row_found(r) == tenantMatch[r]

\* mutant: the started_at cutoff is dropped from the second SELECT
stuck_running_no_cutoff(r) == sweep_sees(r) = "running" /\ sweepWrites[r] = "none"

\* lines 369-374: status == "running" AND started_at IS NOT NULL AND started_at < running_cutoff
stuck_running(r) ==
    /\ sweep_sees(r) = "running"
    /\ sweepWrites[r] = "none"
    /\ startedAt[r] = "old"

\* line 358: the values the requeueing UPDATE writes into status
requeue_status == "retry"

\* lines 316-327: the sweep starts and runs its first SELECT
sweep_select_queued ==
    /\ sweepPc = "idle"
    /\ sweepPc' = "queued"
    /\ sweepQueued' = {r \in Runs : stuck_queued(r)}
    /\ sweepTodo' = {r \in Runs : stuck_queued(r)}
    /\ sweepRunning' = {}
    /\ sweepDispatched' = [r \in Runs |-> 0]
    /\ UNCHANGED <<numRuns, asyncResponse, rowState, tenantMatch, webhook, cancelFlag, jobPc, jobRetries, jobAttempts,
                   jobNodes, jobTrace, notifState, sweepWrites>>
    /\ UNCHANGED <<syncVars, runnerVars, chaosVars, engineVars>>

\* lines 328-367: one iteration of `for run in queued_runs`
sweep_requeue(r) ==
    /\ sweepPc = "queued"
    /\ r \in sweepTodo
    /\ sweepTodo' = sweepTodo \ {r}
    /\ IF graph_row_found(r)
       THEN /\ sweepWrites' = [sweepWrites EXCEPT ![r] = requeue_status]
            /\ jobPc' = [jobPc EXCEPT ![<<r, "sweep">>] = "queued"]
            /\ jobRetries' = [jobRetries EXCEPT ![<<r, "sweep">>] = 0]
            /\ jobAttempts' = [jobAttempts EXCEPT ![<<r, "sweep">>] = 0]
            /\ sweepDispatched' = [sweepDispatched EXCEPT ![r] = @ + 1]
       ELSE UNCHANGED <<sweepWrites, jobPc, jobRetries, jobAttempts, sweepDispatched>>
    /\ UNCHANGED <<numRuns, asyncResponse, rowState, tenantMatch, webhook, cancelFlag, jobNodes, jobTrace,
                   notifState, sweepPc, sweepQueued, sweepRunning>>
    /\ UNCHANGED <<syncVars, runnerVars, chaosVars, engineVars>>

\* lines 369-374: the second SELECT, after the first loop
sweep_select_running ==
    /\ sweepPc = "queued"
    /\ sweepTodo = {}
    /\ sweepPc' = "running"
    /\ sweepRunning' = {r \in Runs : stuck_running(r)}
    /\ sweepTodo' = {r \in Runs : stuck_running(r)}
    /\ UNCHANGED <<numRuns, asyncResponse, rowState, tenantMatch, webhook, cancelFlag, jobPc, jobRetries, jobAttempts,
                   jobNodes, jobTrace, notifState, sweepQueued, sweepWrites, sweepDispatched>>
    /\ UNCHANGED <<syncVars, runnerVars, chaosVars, engineVars>>

\* lines 375-381: one iteration of `for run in running_runs`
sweep_mark_error(r) ==
    /\ sweepPc = "running"
    /\ r \in sweepTodo
    /\ sweepTodo' = sweepTodo \ {r}
    /\ sweepWrites' = [sweepWrites EXCEPT ![r] = "error"]
    /\ UNCHANGED <<numRuns, asyncResponse, rowState, tenantMatch, webhook, cancelFlag, jobPc, jobRetries, jobAttempts,
                   jobNodes, jobTrace, notifState, sweepPc, sweepQueued, sweepRunning,
                   sweepDispatched>>
    /\ UNCHANGED <<syncVars, runnerVars, chaosVars, engineVars>>

\* line 382: db.commit() makes the UPDATEs of both loops visible and releases the rows
sweep_commit ==
    /\ sweepPc = "running"
    /\ sweepTodo = {}
    /\ sweepPc' = "idle"
    /\ status' = [r \in Runs |-> IF sweepWrites[r] # "none" THEN sweepWrites[r] ELSE status[r]]
    /\ startedAt' = [r \in Runs |-> IF sweepWrites[r] = requeue_status THEN "null"
                                    ELSE startedAt[r]]
    /\ createdOld' = [r \in Runs |-> IF sweepWrites[r] = requeue_status THEN FALSE
                                     ELSE createdOld[r]]
    /\ errorBy' = [r \in Runs |-> IF sweepWrites[r] = "error" THEN "sweep"
                                  ELSE IF sweepWrites[r] = "none" THEN errorBy[r]
                                  ELSE "none"]
    /\ sweepWrites' = [r \in Runs |-> "none"]
    /\ sweepQueued' = {}
    /\ sweepRunning' = {}
    /\ sweepDispatched' = [r \in Runs |-> 0]
    /\ UNCHANGED <<numRuns, asyncResponse, tenantMatch, webhook, cancelFlag, jobPc, jobRetries, jobAttempts, jobNodes,
                   jobTrace, notifState, sweepTodo>>
    /\ UNCHANGED <<syncVars, runnerVars, chaosVars, engineVars>>

(***************************************************************************)
(* routers/runs.py: cancel_run                                             *)
(***************************************************************************)

\* line 362: the statuses for which cancel_run returns without cancelling
cancel_final_statuses == {"completed", "failed", "error", "cancelled"}

\* lines 358-371: read the row; unless its status is final, set the flag and
\* UPDATE ... SET status = cancelled
cancel_run(r) ==
    /\ status[r] # "none"
    /\ IF status[r] \in cancel_final_statuses
       THEN UNCHANGED <<status, cancelFlag, errorBy>>
       ELSE /\ ~RowLocked(r)
            /\ cancelFlag' = [cancelFlag EXCEPT ![r] = TRUE]
            /\ status' = [status EXCEPT ![r] = "cancelled"]
            /\ errorBy' = [errorBy EXCEPT ![r] = "none"]
    /\ UNCHANGED <<numRuns, asyncResponse, createdOld, startedAt, tenantMatch, webhook, jobPc,
                   jobRetries, jobAttempts, jobNodes, jobTrace, notifState, sweepState>>
    /\ UNCHANGED <<syncVars, runnerVars, chaosVars, engineVars>>

(***************************************************************************)
(* routers/runs.py: delete_run                                             *)
(***************************************************************************)

\* lines 325-330: DELETE FROM test_runs WHERE id = run_id AND tenant_id = ..., whatever
\* the status of the run; jobs dispatched for the run stay in the queue
delete_run(r) ==
    /\ status[r] # "none"
    /\ ~RowLocked(r)
    /\ status' = [status EXCEPT ![r] = "none"]
    /\ createdOld' = [createdOld EXCEPT ![r] = FALSE]
    /\ startedAt' = [startedAt EXCEPT ![r] = "null"]
    /\ errorBy' = [errorBy EXCEPT ![r] = "none"]
    /\ UNCHANGED <<numRuns, asyncResponse, tenantMatch, webhook, cancelFlag, jobPc, jobRetries, jobAttempts,
                   jobNodes, jobTrace, notifState, sweepState>>
    /\ UNCHANGED <<syncVars, runnerVars, chaosVars, engineVars>>

AsyncNext ==
    \/ \E match \in BOOLEAN, hook \in BOOLEAN, importable \in BOOLEAN :
            run_graph_async(match, hook, importable)
    \/ \E r \in Runs : age_created(r)
    \/ \E r \in Runs : age_started(r)
    \/ \E r \in Runs : cancel_flag_expires(r)
    \/ \E j \in JobIds : worker_start(j)
    \/ \E j \in JobIds : worker_guard(j)
    \/ \E j \in JobIds : worker_exec_node(j)
    \/ \E j \in JobIds, st \in TraceStatus : worker_exec_returns(j, st)
    \/ \E j \in JobIds : worker_store(j)
    \/ \E j \in JobIds : worker_raises(j)
    \/ \E j \in JobIds : worker_handler(j)
    \/ \E j \in JobIds : task_revoked(j)
    \/ \E j \in JobIds : job_lost(j)
    \/ \E r \in Runs : delete_run(r)
    \/ sweep_select_queued
    \/ \E r \in Runs : sweep_requeue(r)
    \/ sweep_select_running
    \/ \E r \in Runs : sweep_mark_error(r)
    \/ sweep_commit
    \/ \E r \in Runs : cancel_run(r)

(***************************************************************************)
(* runner/run_graph.py: GraphRunner._topological_sort                      *)
(* Node ids are numbers; their order stands for the order of the id        *)
(* strings.  Ids beyond the declared ones are ids no node declares.        *)
(***************************************************************************)
NodeIds == 1..(MaxNodes + 1)
DeclaredIds(n) == 1..n
EdgeLists == UNION {[1..k -> NodeIds \X NodeIds] : k \in 0..MaxEdges}

\* orders in which iterating the set node_ids may yield the ids (string hashing is
\* randomised per process, so every order is possible)
IterationOrders(n) ==
    {o \in [1..n -> DeclaredIds(n)] : \A a, b \in 1..n : a # b => o[a] # o[b]}

\* in_degree after the loop over the edges, lines 188-197 (a defaultdict: ids that no
\* node declares get an entry as well)
in_degree(edges) ==
    [x \in NodeIds |-> Cardinality({k \in 1..Len(edges) : edges[k][2] = x})]

RECURSIVE neighbors_from(_, _, _)
neighbors_from(node, edges, k) ==
    IF k > Len(edges) THEN <<>>
    ELSE IF edges[k][1] = node THEN <<edges[k][2]>> \o neighbors_from(node, edges, k + 1)
    ELSE neighbors_from(node, edges, k + 1)

RECURSIVE dedup(_)
dedup(seq) ==
    IF seq = <<>> THEN <<>>
    ELSE <<Head(seq)>> \o dedup(SelectSeq(Tail(seq), LAMBDA x : x # Head(seq)))

\* mutant: the adjacency list keeps each neighbour once
graph_neighbors_unique(node, edges) == dedup(neighbors_from(node, edges, 1))

\* graph[node], lines 187 and 194-196: the targets of the node's edges, one entry per listed
\* edge, in the order of the edge list
graph_neighbors(node, edges) == neighbors_from(node, edges, 1)

\* lines 206-209: the loop over graph[node]; returns <<in_degree, queue>>
RECURSIVE relax(_, _, _)
relax(neigh, indeg, queue) ==
    IF neigh = <<>> THEN <<indeg, queue>>
    ELSE LET d == Head(neigh)
             nd == [indeg EXCEPT ![d] = @ - 1]
         IN  relax(Tail(neigh), nd, IF nd[d] = 0 THEN Append(queue, d) ELSE queue)

\* lines 200-209: the while loop of Kahn's algorithm
RECURSIVE kahn(_, _, _, _)
kahn(queue, result, indeg, edges) ==
    IF queue = <<>> THEN result
    ELSE LET node == Head(queue)
             r == relax(graph_neighbors(node, edges), indeg, Tail(queue))
         IN  kahn(r[2], Append(result, node), r[1], edges)

\* _topological_sort for the declared ids 1..n visited in the order `order`:
\* the result list, or ValueError when its length differs from the number of ids
topological_sort(n, edges, order) ==
    LET result == kahn(SelectSeq(order, LAMBDA x : in_degree(edges)[x] = 0),
                       <<>>, in_degree(edges), edges)
    IN  [raised |-> Len(result) # n, result |-> result]

(***************************************************************************)
(* runner/state_machine.py: ExecutionStateMachine.  The machine is the     *)
(* pair of `nodes` (id -> state, "absent" = no entry) and the log          *)
(* `transitions`; a log entry keeps the event of its metadata.             *)
(***************************************************************************)
NodeState == {"pending", "ready", "running", "completed", "failed", "skipped"}

StateTransition(id, from, to, event) ==
    [node_id |-> id, from_state |-> from, to_state |-> to, event |-> event]

\* self.state_machine of a GraphRunner
state_machine == [nodes |-> node_states, transitions |-> transitions]

\* mutant: adding a node starts the log afresh
sm_add_node_fresh_log(sm, id, initial_state) ==
    [nodes |-> [sm.nodes EXCEPT ![id] = initial_state],
     transitions |-> <<StateTransition(id, "pending", initial_state, "initialized")>>]

\* add_node, lines 51-59: the state is set and an entry from PENDING to the initial
\* state is appended
sm_add_node(sm, id, initial_state) ==
    [nodes |-> [sm.nodes EXCEPT ![id] = initial_state],
     transitions |-> Append(sm.transitions,
                            StateTransition(id, "pending", initial_state, "initialized"))]

\* mutant: a transition to FAILED is not logged
sm_transition_failed_unlogged(sm, id, new_state) ==
    LET known == IF sm.nodes[id] = "absent" THEN sm_add_node(sm, id, "pending") ELSE sm
    IN  [nodes |-> [known.nodes EXCEPT ![id] = new_state],
         transitions |-> IF new_state = "failed" THEN known.transitions
                         ELSE Append(known.transitions,
                                     StateTransition(id, known.nodes[id], new_state, "none"))]

\* transition, lines 65-83: an unknown id is added first; no check of the old state
sm_transition(sm, id, new_state) ==
    LET known == IF sm.nodes[id] = "absent" THEN sm_add_node(sm, id, "pending") ELSE sm
    IN  [nodes |-> [known.nodes EXCEPT ![id] = new_state],
         transitions |-> Append(known.transitions,
                                StateTransition(id, known.nodes[id], new_state, "none"))]

\* get_state, lines 85-87
state_of(id) == node_states[id]

\* get_transitions(node_id), lines 93-97
transitions_of(id) == SelectSeq(transitions, LAMBDA t : t.node_id = id)

\* lines 360-362 of run_graph.py: add_node for the declared ids 1..n in turn
RECURSIVE sm_add_nodes(_, _, _)
sm_add_nodes(sm, k, n) ==
    IF k > n THEN sm ELSE sm_add_nodes(sm_add_node(sm, k, "pending"), k + 1, n)

(***************************************************************************)
(* runner/run_graph.py: GraphRunner.run                                    *)
(***************************************************************************)
Severities == {"error", "warning"}
NoViolations == {}
NewViolations == {NoViolations, {"error"}, {"warning"}}

InitRunner ==
    /\ runPc = "idle"
    /\ graphNodes = 0
    /\ graphEdges = <<>>
    /\ timeout_set = FALSE
    /\ over_budget = FALSE
    /\ execution_order = <<>>
    /\ loopIdx = 0
    /\ node_states = [x \in NodeIds |-> "absent"]
    /\ transitions = <<>>
    /\ agent_outputs = <<>>
    /\ run_context = {}
    /\ contract_violations = NoViolations
    /\ assertion_results = "none"
    /\ trace_status = "pending"
    /\ trace_error = "null"
    /\ startedAfterBudget = FALSE

\* run(graph) is called on a fresh GraphRunner: lines 342-358, the trace is created with
\* status pending
run_begin(n, edges, timeout) ==
    /\ runPc = "idle"
    /\ runPc' = "init"
    /\ graphNodes' = n
    /\ graphEdges' = edges
    /\ timeout_set' = timeout
    /\ UNCHANGED <<over_budget, execution_order, loopIdx, node_states, transitions, agent_outputs, run_context,
                   contract_violations, assertion_results, trace_status, trace_error,
                   startedAfterBudget, syncVars, asyncVars, chaosVars, engineVars>>

\* lines 360-362: every declared node enters the state machine as PENDING
run_init_states ==
    /\ runPc = "init"
    /\ runPc' = "sort"
    /\ node_states' = sm_add_nodes(state_machine, 1, graphNodes).nodes
    /\ transitions' = sm_add_nodes(state_machine, 1, graphNodes).transitions
    /\ UNCHANGED <<graphNodes, graphEdges, timeout_set, over_budget, execution_order, loopIdx,
                   agent_outputs, run_context, contract_violations, assertion_results, trace_status,
                   trace_error, startedAfterBudget, syncVars, asyncVars, chaosVars, engineVars>>

\* lines 342-362 are outside the try block: an exception there (yaml.dump in
\* _compute_graph_hash, graph.get on a graph that is no dict, node["id"] on a node
\* without id) leaves run() as an exception
run_init_raises ==
    /\ runPc = "init"
    /\ runPc' = "raised"
    /\ UNCHANGED <<graphNodes, graphEdges, timeout_set, over_budget, execution_order, loopIdx,
                   node_states, transitions, agent_outputs, run_context, contract_violations, assertion_results,
                   trace_status, trace_error, startedAfterBudget, syncVars, asyncVars, chaosVars, engineVars>>

\* lines 420-423: the except clause of run()
run_except(kind) ==
    /\ trace_status' = "error"
    /\ trace_error' = kind
    /\ runPc' = "returned"

\* lines 365-370: the execution order is computed; ValueError is caught by the except
\* clause
run_sort ==
    /\ runPc = "sort"
    /\ \E order \in IterationOrders(graphNodes) :
         LET sorted == topological_sort(graphNodes, graphEdges, order)
         IN  IF sorted.raised
             THEN /\ run_except("cycles")
                  /\ UNCHANGED <<execution_order, loopIdx>>
             ELSE /\ execution_order' = sorted.result
                  /\ loopIdx' = 1
                  /\ runPc' = "loop"
                  /\ UNCHANGED <<trace_status, trace_error>>
    /\ UNCHANGED <<graphNodes, graphEdges, timeout_set, over_budget, node_states,
                   transitions, agent_outputs, run_context, contract_violations, assertion_results,
                   startedAfterBudget, syncVars, asyncVars, chaosVars, engineVars>>

\* mutant: recorded violations stop the loop like an exceeded budget
timeout_due_or_violations ==
    (timeout_set /\ over_budget) \/ contract_violations # NoViolations

\* lines 374-380: the check made at the top of every iteration of the node loop
timeout_due == timeout_set /\ over_budget

\* mutant: only violations of severity error make the run fail
final_status_errors_only(all_passed, violations) ==
    IF all_passed /\ "error" \notin violations THEN "passed" ELSE "failed"

\* lines 414-417: all_passed and no_violations decide between passed and failed
final_status(all_passed, violations) ==
    IF all_passed /\ violations = NoViolations THEN "passed" ELSE "failed"

\* mutant: the loop visits the order from its end
current_node_from_end == execution_order[Len(execution_order) + 1 - loopIdx]

\* line 373: `for node_id in execution_order`, node_id in the current iteration
current_node == execution_order[loopIdx]

\* lines 373-391 and 223-227: top of an iteration: the timeout check, node_map[node_id],
\* then the input contracts of the node, whose violations are appended to the trace, and
\* the entry into _execute_node, which makes the node RUNNING
run_node_boundary(viol) ==
    /\ runPc = "loop"
    /\ loopIdx <= Len(execution_order)
    /\ IF timeout_due
       THEN /\ run_except("timeout")
            /\ UNCHANGED <<contract_violations, node_states, transitions>>
       ELSE IF current_node \notin DeclaredIds(graphNodes)
       THEN /\ run_except("KeyError")
            /\ UNCHANGED <<contract_violations, node_states, transitions>>
       ELSE /\ contract_violations' = contract_violations \cup viol
            /\ node_states' = sm_transition(state_machine, current_node, "running").nodes
            /\ transitions' =
                   sm_transition(state_machine, current_node, "running").transitions
            /\ runPc' = "node"
            /\ UNCHANGED <<trace_status, trace_error>>
    /\ UNCHANGED <<graphNodes, graphEdges, timeout_set, over_budget, execution_order, loopIdx,
                   agent_outputs, run_context, assertion_results, startedAfterBudget,
                   syncVars, asyncVars, chaosVars, engineVars>>

\* lines 383-388: validate_input raises (e.g. a contract that is no dict)
run_contracts_raise ==
    /\ runPc = "loop"
    /\ loopIdx <= Len(execution_order)
    /\ ~timeout_due
    /\ current_node \in DeclaredIds(graphNodes)
    /\ run_except("exception")
    /\ UNCHANGED <<graphNodes, graphEdges, timeout_set, over_budget, execution_order, loopIdx,
                   node_states, transitions, agent_outputs, run_context, contract_violations, assertion_results,
                   startedAfterBudget, syncVars, asyncVars, chaosVars, engineVars>>

\* mutant: the output of a node is not stored in the context
context_put_nothing(ctx, node_id) == ctx

\* line 394: context[node_id] = output.output_data
context_put(ctx, node_id) == ctx \cup {node_id}

\* lines 229-273 and 391-402: _execute_node returns (COMPLETED), the output is appended
\* and the output contracts of the node are validated; `slow`: the node took so long
\* that the elapsed time of the run is beyond timeout_seconds when it returns
run_execute_node(slow, viol) ==
    /\ runPc = "node"
    /\ node_states' = sm_transition(state_machine, current_node, "completed").nodes
    /\ transitions' = sm_transition(state_machine, current_node, "completed").transitions
    /\ agent_outputs' = Append(agent_outputs, current_node)
    /\ run_context' = context_put(run_context, current_node)
    /\ contract_violations' = contract_violations \cup viol
    /\ over_budget' = (over_budget \/ (timeout_set /\ slow))
    /\ startedAfterBudget' = (startedAfterBudget \/ over_budget)
    /\ loopIdx' = loopIdx + 1
    /\ runPc' = "loop"
    /\ UNCHANGED <<graphNodes, graphEdges, timeout_set, execution_order, assertion_results,
                   trace_status, trace_error, syncVars, asyncVars, chaosVars, engineVars>>

\* _execute_node raises (provider error, governance block): the node becomes FAILED
\* (lines 275-277) and the except clause of run() ends the run
run_execute_node_raises(slow) ==
    /\ runPc = "node"
    /\ node_states' = sm_transition(state_machine, current_node, "failed").nodes
    /\ transitions' = sm_transition(state_machine, current_node, "failed").transitions
    /\ over_budget' = (over_budget \/ (timeout_set /\ slow))
    /\ startedAfterBudget' = (startedAfterBudget \/ over_budget)
    /\ run_except("node")
    /\ UNCHANGED <<graphNodes, graphEdges, timeout_set, execution_order, loopIdx,
                   agent_outputs, run_context, contract_violations, assertion_results, syncVars, asyncVars, chaosVars, engineVars>>

\* the node loop is exhausted: totals are computed (lines 404-406)
run_loop_done ==
    /\ runPc = "loop"
    /\ loopIdx > Len(execution_order)
    /\ runPc' = "assert"
    /\ UNCHANGED <<graphNodes, graphEdges, timeout_set, over_budget, execution_order, loopIdx,
                   node_states, transitions, agent_outputs, run_context, contract_violations, assertion_results,
                   trace_status, trace_error, startedAfterBudget, syncVars, asyncVars, chaosVars, engineVars>>

\* lines 408-418: the assertions are evaluated and the final status is set
run_assertions(all_passed) ==
    /\ runPc = "assert"
    /\ assertion_results' = IF all_passed THEN "all_passed" ELSE "some_failed"
    /\ trace_status' = final_status(all_passed, contract_violations)
    /\ runPc' = "returned"
    /\ UNCHANGED <<graphNodes, graphEdges, timeout_set, over_budget, execution_order, loopIdx,
                   node_states, transitions, agent_outputs, run_context, contract_violations, trace_error,
                   startedAfterBudget, syncVars, asyncVars, chaosVars, engineVars>>

\* assertion_engine.evaluate raises (e.g. an assertion that is no dict)
run_assertions_raise ==
    /\ runPc = "assert"
    /\ run_except("exception")
    /\ UNCHANGED <<graphNodes, graphEdges, timeout_set, over_budget, execution_order, loopIdx,
                   node_states, transitions, agent_outputs, run_context, contract_violations, assertion_results,
                   startedAfterBudget, syncVars, asyncVars, chaosVars, engineVars>>

RunnerNext ==
    \/ \E n \in 1..MaxNodes, edges \in EdgeLists, timeout \in BOOLEAN :
            run_begin(n, edges, timeout)
    \/ run_init_states
    \/ run_init_raises
    \/ run_sort
    \/ \E viol \in NewViolations : run_node_boundary(viol)
    \/ run_contracts_raise
    \/ \E slow \in BOOLEAN, viol \in NewViolations : run_execute_node(slow, viol)
    \/ \E slow \in BOOLEAN : run_execute_node_raises(slow)
    \/ run_loop_done
    \/ \E all_passed \in BOOLEAN : run_assertions(all_passed)
    \/ run_assertions_raise

(***************************************************************************)
(* runner/run_graph.py: GraphRunner in chaos mode (__init__, _execute_node, *)
(* _inject_chaos).  A generator is a seed and the count of numbers drawn   *)
(* from it; rng_value abstracts the Mersenne Twister as a fixed function   *)
(* of both.                                                                *)
(***************************************************************************)
Runners == 1..NumRunners
\* ExecutionMode, lines 30-35: "normal" stands for every member but CHAOS, which
\* _execute_node treats alike
ExecutionMode == {"normal", "chaos"}
Seeds == 1..NumSeeds
Generators == 0..NumRunners
ChaosIds(n) == 1..n
Rates == {0, RngRange \div 2, RngRange}
ChaosConfigs == [drop_rate : Rates, corrupt_rate : Rates]
ChaosEdgeLists(n) == UNION {[1..k -> ChaosIds(n) \X ChaosIds(n)] : k \in 0..MaxChaosEdges}

\* the lists a node may give as its "inputs": ids in ascending order
RECURSIVE AscendingList(_)
AscendingList(S) ==
    IF S = {} THEN <<>>
    ELSE LET m == CHOOSE x \in S : \A y \in S : x <= y
         IN  <<m>> \o AscendingList(S \ {m})

InputLists(n) == {AscendingList(S) : S \in SUBSET ChaosIds(n)}

\* the k-th number (k = 0, 1, ...) a generator seeded with `seed` returns
rng_value(seed, k) == (seed * (k + 1) + (k \div 2)) % RngRange

\* rng.choice(keys): one more number selects the position
rng_choice(seed, k, len) == (rng_value(seed, k) % len) + 1

\* _inject_chaos, lines 308-311: the drop decision; data is the list of <<key, value>>
\* of input_data, the result is <<data, numbers drawn>>
inject_drop(data, seed, k, cfg) ==
    IF rng_value(seed, k) < cfg.drop_rate /\ data # <<>>
    THEN LET at == rng_choice(seed, k + 1, Len(data))
         IN  <<SubSeq(data, 1, at - 1) \o SubSeq(data, at + 1, Len(data)), 2>>
    ELSE <<data, 1>>

\* _inject_chaos, lines 313-317: the corrupt decision
inject_corrupt(data, seed, k, cfg) ==
    IF rng_value(seed, k) < cfg.corrupt_rate /\ data # <<>>
    THEN LET at == rng_choice(seed, k + 1, Len(data))
         IN  <<[data EXCEPT ![at] = <<data[at][1], "CORRUPTED_VALUE">>], 2>>
    ELSE <<data, 1>>

\* _inject_chaos with a generator in state (seed, k): <<input_data, numbers drawn>>
inject_chaos(data, seed, k, cfg) ==
    LET dropped == inject_drop(data, seed, k, cfg)
        corrupted == inject_corrupt(dropped[1], seed, k + dropped[2], cfg)
    IN  <<corrupted[1], dropped[2] + corrupted[2]>>

\* _execute_node, lines 234-237: input_data holds the outputs of the node's inputs that
\* are in the context, i.e. were executed before it
RECURSIVE input_data(_, _)
input_data(deps, done) ==
    IF deps = <<>> THEN <<>>
    ELSE IF Head(deps) \in done
         THEN <<<<Head(deps), "output">>>> \o input_data(Tail(deps), done)
         ELSE input_data(Tail(deps), done)

\* mutant: chaos is injected whatever the mode
node_input_data_any_mode(mode, deps, done, seed, k, cfg) ==
    inject_chaos(input_data(deps, done), seed, k, cfg)

\* _execute_node, lines 234-243: input_data as handed to the agent: _inject_chaos is
\* applied in chaos mode only; <<input_data, numbers drawn>>
node_input_data(mode, deps, done, seed, k, cfg) ==
    IF mode = "chaos" THEN inject_chaos(input_data(deps, done), seed, k, cfg)
    ELSE <<input_data(deps, done), 0>>

\* mutant: the decisions are drawn from the module-level generator
chaos_rng_global(i) == 0

\* _inject_chaos, line 306: `rng = self._random`, the runner's own generator
chaos_rng(i) == i

InitChaos ==
    /\ chaosNodes = 0
    /\ chaosEdges = <<>>
    /\ chaosInputs = <<>>
    /\ chaos_config = [drop_rate |-> 0, corrupt_rate |-> 0]
    /\ chPc = [i \in Runners |-> "none"]
    /\ chSeed = [i \in Runners |-> 0]
    /\ chMode = [i \in Runners |-> "normal"]
    /\ chOrder = [i \in Runners |-> <<>>]
    /\ chIdx = [i \in Runners |-> 0]
    /\ chOutputs = [i \in Runners |-> <<>>]
    /\ rngSeed = [g \in Generators |-> 0]
    /\ rngPos = [g \in Generators |-> 0]

\* the graph and the chaos_config that the runs are given
chaos_load_graph(n, edges, inputs, cfg) ==
    /\ chaosNodes = 0
    /\ chaosNodes' = n
    /\ chaosEdges' = edges
    /\ chaosInputs' = inputs
    /\ chaos_config' = cfg
    /\ UNCHANGED <<chPc, chSeed, chMode, chOrder, chIdx, chOutputs, rngSeed, rngPos,
                   syncVars, asyncVars, runnerVars, engineVars>>

\* GraphRunner.__init__, lines 122-132: self.seed, self.mode, self._random = random.Random(seed), and
\* random.seed(seed) re-seeds the module-level generator
GraphRunner_init(i, seed, mode) ==
    /\ chaosNodes > 0
    /\ chPc[i] = "none"
    /\ chPc' = [chPc EXCEPT ![i] = "constructed"]
    /\ chSeed' = [chSeed EXCEPT ![i] = seed]
    /\ chMode' = [chMode EXCEPT ![i] = mode]
    /\ rngSeed' = [rngSeed EXCEPT ![i] = seed, ![0] = seed]
    /\ rngPos' = [rngPos EXCEPT ![i] = 0, ![0] = 0]
    /\ UNCHANGED <<chaosNodes, chaosEdges, chaosInputs, chaos_config, chOrder, chIdx,
                   chOutputs, syncVars, asyncVars, runnerVars, engineVars>>

\* run(), lines 364-367: the execution order of this run; the iteration order of
\* node_ids is that of the process the run happens in
chaos_run_sort(i) ==
    /\ chPc[i] = "constructed"
    /\ \E order \in IterationOrders(chaosNodes) :
         LET sorted == topological_sort(chaosNodes, chaosEdges, order)
         IN  IF sorted.raised
             THEN /\ chPc' = [chPc EXCEPT ![i] = "error"]
                  /\ UNCHANGED <<chOrder, chIdx>>
             ELSE /\ chPc' = [chPc EXCEPT ![i] = "running"]
                  /\ chOrder' = [chOrder EXCEPT ![i] = sorted.result]
                  /\ chIdx' = [chIdx EXCEPT ![i] = 1]
    /\ UNCHANGED <<chaosNodes, chaosEdges, chaosInputs, chaos_config, chSeed, chMode,
                   chOutputs,
                   rngSeed, rngPos, syncVars, asyncVars, runnerVars, engineVars>>

\* one iteration of the node loop in chaos mode: _execute_node builds input_data,
\* _inject_chaos alters it, the output is appended to the trace
chaos_execute_node(i) ==
    /\ chPc[i] = "running"
    /\ LET node == chOrder[i][chIdx[i]]
           done == {chOutputs[i][k][1] : k \in 1..Len(chOutputs[i])}
           g == chaos_rng(i)
           injected == node_input_data(chMode[i], chaosInputs[node], done,
                                       rngSeed[g], rngPos[g], chaos_config)
       IN  /\ chOutputs' = [chOutputs EXCEPT ![i] = Append(@, <<node, injected[1]>>)]
           /\ rngPos' = [rngPos EXCEPT ![g] = @ + injected[2]]
    /\ chIdx' = [chIdx EXCEPT ![i] = @ + 1]
    /\ chPc' = [chPc EXCEPT ![i] = IF chIdx[i] = Len(chOrder[i]) THEN "done" ELSE "running"]
    /\ UNCHANGED <<chaosNodes, chaosEdges, chaosInputs, chaos_config, chSeed, chMode,
                   chOrder,
                   rngSeed, syncVars, asyncVars, runnerVars, engineVars>>

ChaosNext ==
    \/ \E n \in 1..MaxChaosNodes :
        \E edges \in ChaosEdgeLists(n), inputs \in [ChaosIds(n) -> InputLists(n)],
           cfg \in ChaosConfigs : chaos_load_graph(n, edges, inputs, cfg)
    \/ \E i \in Runners, seed \in Seeds, mode \in ExecutionMode :
            GraphRunner_init(i, seed, mode)
    \/ \E i \in Runners : chaos_run_sort(i)
    \/ \E i \in Runners : chaos_execute_node(i)

(***************************************************************************)
(* runner/assertions.py: AssertionEngine                                   *)
(* An assertion is described by what evaluate looks at: whether it is a    *)
(* dict, its type, and how the handler its type is dispatched to behaves   *)
(* on its (expected, actual, config).                                      *)
(***************************************************************************)
\* "equals" stands for the types with a built-in handler, "custom" is the member of
\* AssertionType without one, "my_check" and "bogus" are no members of the enumeration
AssertionTypeNames == {"equals", "custom", "my_check", "bogus"}
CustomNames == {"equals", "custom", "my_check"}
HandlerBehaviours == {"pass", "fail", "throws"}
NotADict == [shape |-> "other", type |-> "equals", behaviour |-> "pass"]
Assertions ==
    [shape : {"dict"}, type : AssertionTypeNames, behaviour : HandlerBehaviours]
        \cup {NotADict}
AssertionLists == UNION {[1..k -> Assertions] : k \in 0..MaxAssertions}

\* AssertionType(assertion_type), line 436: ValueError unless the value is a member
AssertionType_member(t) == t \in {"equals", "custom"}

\* self._handlers, lines 74-90: every member except CUSTOM has a handler
builtin_handler(t) == t = "equals"

\* the call of a handler, lines 438 and 440-442: its return value, or its exception
\* turned into a failed result by the except clause, lines 446-448
call_handler(a, by) ==
    IF a.behaviour = "throws"
    THEN [passed |-> FALSE, message |-> "assertion_error", handler |-> by]
    ELSE [passed |-> a.behaviour = "pass", message |-> "from_handler", handler |-> by]

\* lines 435-448: the try block for one assertion
evaluate_one(a, customs) ==
    IF ~AssertionType_member(a.type)
    THEN [passed |-> FALSE, message |-> "assertion_error", handler |-> "none"]
    ELSE IF builtin_handler(a.type) THEN call_handler(a, "builtin")
    ELSE IF a.type \in customs THEN call_handler(a, "custom")
    ELSE [passed |-> FALSE, message |-> "unknown_type", handler |-> "none"]

InitAssertions ==
    /\ custom_assertions = {}
    /\ evalPc = "idle"
    /\ evalAssertions = <<>>
    /\ evalIdx = 0
    /\ evalResults = <<>>

\* register_custom(name, handler), lines 92-94
register_custom(name) ==
    /\ evalPc = "idle"
    /\ name \notin custom_assertions
    /\ custom_assertions' = custom_assertions \cup {name}
    /\ UNCHANGED <<evalPc, evalAssertions, evalIdx, evalResults,
                   contractVars, resolveVars,
                   syncVars, asyncVars, runnerVars, chaosVars>>

\* evaluate(assertions, context, agent_outputs) is called: lines 405-408
evaluate_begin(assertions) ==
    /\ evalPc = "idle"
    /\ evalPc' = "running"
    /\ evalAssertions' = assertions
    /\ evalIdx' = 1
    /\ UNCHANGED <<custom_assertions, evalResults,
                   contractVars, resolveVars,
                   syncVars, asyncVars, runnerVars, chaosVars>>

\* one iteration of the loop, lines 410-459: assertion.get(...) outside the try block
\* raises AttributeError out of evaluate when the assertion is no dict; otherwise one
\* result is appended
evaluate_step ==
    /\ evalPc = "running"
    /\ evalIdx <= Len(evalAssertions)
    /\ IF evalAssertions[evalIdx].shape # "dict"
       THEN /\ evalPc' = "raised"
            /\ UNCHANGED <<evalIdx, evalResults>>
       ELSE /\ evalResults' = Append(evalResults,
                                     evaluate_one(evalAssertions[evalIdx], custom_assertions))
            /\ evalIdx' = evalIdx + 1
            /\ UNCHANGED evalPc
    /\ UNCHANGED <<custom_assertions, evalAssertions,
                   contractVars, resolveVars,
                   syncVars, asyncVars, runnerVars, chaosVars>>

\* line 461: return results
evaluate_return ==
    /\ evalPc = "running"
    /\ evalIdx > Len(evalAssertions)
    /\ evalPc' = "returned"
    /\ UNCHANGED <<custom_assertions, evalAssertions, evalIdx, evalResults,
                   contractVars, resolveVars,
                   syncVars, asyncVars, runnerVars, chaosVars>>

AssertionsNext ==
    \/ \E name \in CustomNames : register_custom(name)
    \/ \E assertions \in AssertionLists : evaluate_begin(assertions)
    \/ evaluate_step
    \/ evaluate_return

(***************************************************************************)
(* runner/contracts.py: ContractValidator                                  *)
(* A contract is described by what the validator looks at.  Its schema,    *)
(* types and constraints entries are given by the way the check turns out  *)
(* on the data at hand; types and constraints concern the field "id".      *)
(***************************************************************************)
FieldList == <<"id">>
Fields == {FieldList[k] : k \in 1..Len(FieldList)}
CtxNodes == {"A", "B"}
DeclaredSeverities == {"error", "warning", "info"}
\* schema: no entry; the data conforms; it does not (ValidationError); the schema itself
\* is invalid (SchemaError); the jsonschema package is missing (ImportError)
SchemaKinds == {"absent", "satisfied", "violated", "invalid", "no_package"}
\* types: no entry; the value has the type; it has not; the type name is no string
TypeKinds == {"absent", "match", "mismatch", "nonstring"}
\* constraints: no entry; met; not met; a bound that cannot be compared with the value;
\* a pattern that is no valid regular expression
ConstraintKinds == {"absent", "within", "violated", "incomparable", "bad_pattern"}
Contracts == [severity : DeclaredSeverities, schema : SchemaKinds,
              required_fields : SUBSET Fields, types : TypeKinds,
              constraints : ConstraintKinds, input_sources : SUBSET CtxNodes]

\* a value: a dict with the given fields, something that is no dict, or nothing
AbsentValue == [present |-> FALSE, dict |-> FALSE, fields |-> {}]
NonDictValue == [present |-> TRUE, dict |-> FALSE, fields |-> {}]
DictValues == {[present |-> TRUE, dict |-> TRUE, fields |-> F] : F \in SUBSET Fields}
DataValues == DictValues \cup {NonDictValue}
\* (an output that is no dict enters the data as {"value": output}, which holds none
\* of the fields, like the empty dict)
Contexts == [CtxNodes -> DictValues \cup {AbsentValue}]
NoContext == [n \in CtxNodes |-> AbsentValue]
NoContract == [severity |-> "error", schema |-> "absent", required_fields |-> {},
               types |-> "absent", constraints |-> "absent", input_sources |-> {}]

Returned(violations) == [raised |-> FALSE, violations |-> violations]
Raised == [raised |-> TRUE, violations |-> <<>>]

\* the severity written into a ContractViolation of a failed check: the literal "error"
\* at lines 102, 127, 142, 197, 233, 246, 261, 274, 288 and 304
violation_severity(c) == "error"

ContractViolation(kind, fld, sev, now) ==
    [contract_type |-> kind, field |-> fld, severity |-> sev, detected_at |-> now]

\* _validate_schema, lines 67-105
validate_schema(c, data, now) ==
    CASE c.schema = "satisfied" -> Returned(<<>>)
      [] c.schema = "violated" ->
            Returned(<<ContractViolation("schema", "path", violation_severity(c), now)>>)
      [] c.schema = "no_package" ->
            Returned(<<ContractViolation("schema", "*", "warning", now)>>)
      [] OTHER -> Raised

\* the loop of _validate_required_fields, lines 131-143, from the k-th field on
RECURSIVE missing_fields(_, _, _, _)
missing_fields(c, data, now, k) ==
    IF k > Len(FieldList) THEN <<>>
    ELSE (IF FieldList[k] \in c.required_fields /\ FieldList[k] \notin data.fields
          THEN <<ContractViolation("required_fields", FieldList[k],
                                   violation_severity(c), now)>>
          ELSE <<>>) \o missing_fields(c, data, now, k + 1)

\* _validate_required_fields, lines 107-145
validate_required_fields(c, data, now) ==
    IF ~data.dict
    THEN Returned(<<ContractViolation("required_fields", "*", violation_severity(c), now)>>)
    ELSE Returned(missing_fields(c, data, now, 1))

\* _validate_types, lines 147-200: expected_type.lower() raises AttributeError for a
\* type name that is no string, once the field is found in the data
validate_types(c, data, now) ==
    IF ~data.dict \/ "id" \notin data.fields THEN Returned(<<>>)
    ELSE CASE c.types = "match" -> Returned(<<>>)
           [] c.types = "mismatch" ->
                Returned(<<ContractViolation("type_check", "id", violation_severity(c), now)>>)
           [] OTHER -> Raised

\* _validate_constraints, lines 202-307: value < constraint["min"] raises TypeError for
\* a bound of another type, re.match raises re.error for an invalid pattern
validate_constraints(c, data, now) ==
    IF ~data.dict \/ "id" \notin data.fields THEN Returned(<<>>)
    ELSE CASE c.constraints = "within" -> Returned(<<>>)
           [] c.constraints = "violated" ->
                Returned(<<ContractViolation("value_constraint", "id",
                                             violation_severity(c), now)>>)
           [] OTHER -> Raised

\* a further check: skipped when the contract has no such entry or an earlier check
\* raised, otherwise its violations extend the list
then_check(sofar, wanted, check) ==
    IF sofar.raised \/ ~wanted THEN sofar
    ELSE IF check.raised THEN Raised
    ELSE Returned(sofar.violations \o check.violations)

\* lines 333-346 and 365-378: the four checks in their order
run_validations(c, data, now) ==
    then_check(
        then_check(
            then_check(
                then_check(Returned(<<>>), c.schema # "absent", validate_schema(c, data, now)),
                c.required_fields # {}, validate_required_fields(c, data, now)),
            c.types # "absent", validate_types(c, data, now)),
        c.constraints # "absent", validate_constraints(c, data, now))

\* validate_input, lines 327-331: the data checked is the union of the outputs of the
\* contract's input_sources found in the context
input_data_of(c, context) ==
    [present |-> TRUE, dict |-> TRUE,
     fields |-> UNION {context[n].fields : n \in {m \in c.input_sources : context[m].present}}]

InitContracts ==
    /\ valPc = "idle"
    /\ valContract = NoContract
    /\ valData = AbsentValue
    /\ valContext = NoContext
    /\ valPreds = {}
    /\ valResult = <<>>
    /\ valFirst = <<>>
    /\ clock = 0

\* a contract of the graph is taken up
contract_define(c) ==
    /\ valPc = "idle"
    /\ valPc' = "defined"
    /\ valContract' = c
    /\ UNCHANGED <<valData, valContext, valPreds, valResult, valFirst, clock,
                   assertVars, resolveVars,
                   syncVars, asyncVars, runnerVars, chaosVars>>

\* validate_output(contract, output_data), lines 348-378
validate_output(data) ==
    /\ valPc = "defined"
    /\ valData' = data
    /\ LET r == run_validations(valContract, data, clock)
       IN  /\ valPc' = IF r.raised THEN "raised" ELSE "returned"
           /\ valResult' = r.violations
    /\ UNCHANGED <<valContract, valContext, valPreds, valFirst, clock,
                   assertVars, resolveVars,
                   syncVars, asyncVars, runnerVars, chaosVars>>

\* validate_output is called once more with the same contract and the same output
validate_output_again ==
    /\ valPc = "returned"
    /\ valData.present
    /\ LET r == run_validations(valContract, valData, clock)
       IN  /\ valPc' = IF r.raised THEN "raised" ELSE "returned_twice"
           /\ valResult' = r.violations
    /\ valFirst' = valResult
    /\ UNCHANGED <<valContract, valData, valContext, valPreds, clock,
                   assertVars, resolveVars,
                   syncVars, asyncVars, runnerVars, chaosVars>>

\* validate_input(contract, context), lines 309-346, for a target node whose
\* predecessors in the graph are preds
validate_input(context, preds) ==
    /\ valPc = "defined"
    /\ valContext' = context
    /\ valPreds' = preds
    /\ LET r == run_validations(valContract, input_data_of(valContract, context), clock)
       IN  /\ valPc' = IF r.raised THEN "raised" ELSE "returned"
           /\ valResult' = r.violations
    /\ UNCHANGED <<valContract, valData, valFirst, clock,
                   assertVars, resolveVars,
                   syncVars, asyncVars, runnerVars, chaosVars>>

\* time passes between two calls
clock_tick ==
    /\ valPc = "returned"
    /\ valData.present
    /\ clock < MaxClock
    /\ clock' = clock + 1
    /\ UNCHANGED <<valPc, valContract, valData, valContext, valPreds, valResult, valFirst,
                   assertVars, resolveVars, syncVars, asyncVars, runnerVars, chaosVars>>

ContractsNext ==
    \/ \E c \in Contracts : contract_define(c)
    \/ \E data \in DataValues : validate_output(data)
    \/ validate_output_again
    \/ \E context \in Contexts, preds \in SUBSET CtxNodes : validate_input(context, preds)
    \/ clock_tick

(***************************************************************************)
(* runner/assertions.py: how evaluate resolves `actual` for the latency    *)
(* and cost assertions, given the context and agent_outputs that run()     *)
(* hands over (run_graph.py lines 392-394 and 409-411).  One node "A" is   *)
(* executed or not; "B" is a node that was not executed.                   *)
(***************************************************************************)
None == -1
Measures == 0..MaxMeasure
MetricFields == {"latency_ms", "cost_usd"}
MeasureAssertionTypes == {"latency_under", "cost_under"}

\* output_data, restricted to the two keys an assertion may name (None: no such key)
OutputDatas == [MetricFields -> Measures \cup {None}]

\* AgentOutput: measured latency_ms and cost_usd, and output_data
AgentOutputs == [executed : {TRUE}, latency_ms : Measures, cost_usd : Measures,
                 output_data : OutputDatas]

NotExecuted == [executed |-> FALSE, latency_ms |-> 0, cost_usd |-> 0,
                output_data |-> [f \in MetricFields |-> None]]

MeasureAssertions == [type : MeasureAssertionTypes, target : CtxNodes, field : MetricFields,
                      expected : Measures]

NoAssertion == [type |-> "latency_under", target |-> "A", field |-> "latency_ms",
                expected |-> 0]

\* run_graph.py line 394: context[node_id] = output.output_data for every executed node
context_has(node, out) == node = "A" /\ out.executed

\* assertions.py line 408: output_map = {o.node_id: o for o in agent_outputs}
output_map_has(node, out) == node = "A" /\ out.executed

\* lines 418-432: the context is consulted first; the measured values of the AgentOutput
\* are read only for a target that is no key of the context
resolve_actual(a, out) ==
    IF context_has(a.target, out) THEN out.output_data[a.field]
    ELSE IF output_map_has(a.target, out)
    THEN IF a.field = "latency_ms" THEN out.latency_ms
         ELSE IF a.field = "cost_usd" THEN out.cost_usd
         ELSE out.output_data[a.field]
    ELSE None

\* _assert_latency_under and _assert_cost_under, lines 252-283: float(None) raises
\* TypeError, which makes the assertion fail
assert_under(expected, actual) == actual # None /\ actual < expected

InitResolve ==
    /\ resPc = "idle"
    /\ resOutput = NotExecuted
    /\ resAssertion = NoAssertion
    /\ resActual = None
    /\ resPassed = FALSE

\* run_graph.py lines 391-394: the node loop of run() has executed node "A" (or has
\* ended before it)
run_collect_outputs(out) ==
    /\ resPc = "idle"
    /\ resPc' = "ran"
    /\ resOutput' = out
    /\ UNCHANGED <<resAssertion, resActual, resPassed, assertVars, contractVars,
                   syncVars, asyncVars, runnerVars, chaosVars>>

\* assertions.py lines 410-448 for one latency or cost assertion
evaluate_measure(a) ==
    /\ resPc = "ran"
    /\ resPc' = "evaluated"
    /\ resAssertion' = a
    /\ resActual' = resolve_actual(a, resOutput)
    /\ resPassed' = assert_under(a.expected, resolve_actual(a, resOutput))
    /\ UNCHANGED <<resOutput, assertVars, contractVars,
                   syncVars, asyncVars, runnerVars, chaosVars>>

ResolveNext ==
    \/ \E out \in AgentOutputs \cup {NotExecuted} : run_collect_outputs(out)
    \/ \E a \in MeasureAssertions : evaluate_measure(a)

(***************************************************************************)
(* runner/state_machine.py: an ExecutionStateMachine driven directly by    *)
(* add_node and transition calls                                           *)
(***************************************************************************)
\* the variables of a GraphRunner other than its state machine
runVars == <<runPc, graphNodes, graphEdges, timeout_set, over_budget, execution_order,
             loopIdx, agent_outputs, run_context, contract_violations, assertion_results,
             trace_status, trace_error, startedAfterBudget>>

\* ids given to the calls
SmIds == DeclaredIds(NumNodes)

\* add_node(node_id, initial_state), lines 51-59
add_node(id, initial_state) ==
    /\ Len(sm_add_node(state_machine, id, initial_state).transitions) <= MaxLog
    /\ node_states' = sm_add_node(state_machine, id, initial_state).nodes
    /\ transitions' = sm_add_node(state_machine, id, initial_state).transitions
    /\ UNCHANGED <<runVars, syncVars, asyncVars, chaosVars, engineVars>>

\* transition(node_id, new_state), lines 65-83
transition(id, new_state) ==
    /\ Len(sm_transition(state_machine, id, new_state).transitions) <= MaxLog
    /\ node_states' = sm_transition(state_machine, id, new_state).nodes
    /\ transitions' = sm_transition(state_machine, id, new_state).transitions
    /\ UNCHANGED <<runVars, syncVars, asyncVars, chaosVars, engineVars>>

StateMachineNext ==
    \/ \E id \in SmIds, initial_state \in NodeState : add_node(id, initial_state)
    \/ \E id \in SmIds, new_state \in NodeState : transition(id, new_state)

\* the API and the workers of one run when worker processes can be lost
WorkerNext ==
    \/ \E match \in BOOLEAN, hook \in BOOLEAN, importable \in BOOLEAN :
            run_graph_async(match, hook, importable)
    \/ \E r \in Runs : cancel_flag_expires(r)
    \/ \E j \in JobIds : worker_start(j)
    \/ \E j \in JobIds : worker_guard(j)
    \/ \E j \in JobIds : worker_exec_node(j)
    \/ \E j \in JobIds, st \in TraceStatus : worker_exec_returns(j, st)
    \/ \E j \in JobIds : worker_store(j)
    \/ \E j \in JobIds : worker_raises(j)
    \/ \E j \in JobIds : worker_handler(j)
    \/ \E j \in JobIds : task_revoked(j)
    \/ \E j \in JobIds : job_lost(j)
    \/ \E j \in JobIds : worker_lost(j)
    \/ \E r \in Runs : cancel_run(r)
    \/ \E r \in Runs : delete_run(r)

Init == InitSync /\ InitAsync /\ InitRunner /\ InitChaos /\ InitAssertions /\ InitContracts
        /\ InitResolve

SpecSync == Init /\ [][SyncNext]_vars

SpecAsync == Init /\ [][AsyncNext]_vars

SpecWorker == Init /\ [][WorkerNext]_vars

SpecRunner == Init /\ [][RunnerNext]_vars

SpecChaos == Init /\ [][ChaosNext]_vars

SpecAssertions == Init /\ [][AssertionsNext]_vars

SpecContracts == Init /\ [][ContractsNext]_vars

SpecResolve == Init /\ [][ResolveNext]_vars

SpecStateMachine == Init /\ [][StateMachineNext]_vars

\* Workers take and finish the jobs they are given, the beat scheduler keeps starting the
\* sweep and every sweep runs to its commit, and time passes.  Requests, revocations,
\* lost messages and exceptions are not forced to happen.
FairAsync ==
    /\ \A j \in JobIds : WF_vars(worker_start(j))
    /\ \A j \in JobIds : WF_vars(worker_guard(j))
    /\ \A j \in JobIds : WF_vars(worker_exec_node(j))
    /\ \A j \in JobIds : WF_vars(\E st \in TraceStatus : worker_exec_returns(j, st))
    /\ \A j \in JobIds : WF_vars(worker_store(j))
    /\ \A j \in JobIds : WF_vars(worker_handler(j))
    /\ \A r \in Runs : WF_vars(age_created(r))
    /\ \A r \in Runs : WF_vars(age_started(r))
    /\ \A r \in Runs : WF_vars(cancel_flag_expires(r))
    /\ WF_vars(sweep_select_queued)
    /\ \A r \in Runs : WF_vars(sweep_requeue(r))
    /\ WF_vars(sweep_select_running)
    /\ \A r \in Runs : WF_vars(sweep_mark_error(r))
    /\ WF_vars(sweep_commit)

FairSpecAsync == SpecAsync /\ FairAsync

(***************************************************************************)
(* Claims                                                                  *)
(***************************************************************************)
TerminalStatuses == {"passed", "failed", "error", "cancelled"}
Executing(j) == jobPc[j] \in {"exec", "store"}

\* C1: two synchronous requests on the same graph id are never both inside
\* execute_graph, for every interleaving and every duration of the run.
C1_MutualExclusion ==
    \A q1 \in Reqs, q2 \in Reqs :
        (q1 # q2 /\ reqPc[q1] = "exec" /\ reqPc[q2] = "exec") => reqGraph[q1] # reqGraph[q2]

\* C2: of the jobs delivered for one run_id at most one passes the guarded update and
\* executes the graph.
C2_SingleExecution ==
    \A r \in Runs : Cardinality({j \in JobIds : runOf(j) = r /\ Executing(j)}) <= 1

\* C3: an attempt that fails while retries remain (the job is re-published) neither sets
\* the run's status to error nor dispatches run_failed.
C3_ErrorOnlyAfterLastRetry ==
    [][\A j \in JobIds :
          (jobPc[j] = "handler" /\ jobPc'[j] = "queued") =>
              /\ status'[runOf(j)] # "error"
              /\ runFailedSent'[runOf(j)] = runFailedSent[runOf(j)]]_vars

\* C4: under fairness of workers and sweep every queued run eventually reaches a
\* terminal status (or its row is deleted).
C4_QueuedRunTerminates ==
    \A r \in Runs :
        (status[r] = "queued") ~> (status[r] \in TerminalStatuses \/ status[r] = "none")

C7_ErrorIsPermanent ==
    [][\A r \in Runs :
          (status[r] = "error" /\ errorBy[r] \in {"sweep", "handler"}) =>
              status'[r] \in {"error", "none"}]_vars

\* C8: a worker that starts a job while the flag is set returns cancelled without
\* executing a node or touching the row; a job is cancelled only by that first check, so a
\* flag set later changes nothing: the execution that returns passed or failed has run
\* every node.
C8_CancelCheckedOnceAtStart ==
    /\ [][\A j \in JobIds :
              (jobPc[j] = "queued" /\ jobPc'[j] \notin {"queued", "revoked", "lost"}
                  /\ cancelFlag[runOf(j)]) =>
                  /\ jobPc'[j] = "cancelled"
                  /\ jobNodes'[j] = 0
                  /\ UNCHANGED <<status, createdOld, startedAt, errorBy>>]_vars
    /\ [][\A j \in JobIds :
              /\ jobPc[j] = "cancelled" => (jobPc'[j] = "cancelled" /\ jobNodes'[j] = 0)
              /\ jobPc'[j] = "cancelled" => jobPc[j] \in {"queued", "cancelled"}]_vars
    /\ [](\A j \in JobIds :
              (jobPc[j] = "store" /\ jobTrace[j] \in {"passed", "failed"}) =>
                  jobNodes[j] = NumNodes)

C8_Witness ==
    /\ \E j \in JobIds : jobPc[j] = "cancelled"
    /\ \E j \in JobIds : /\ jobPc[j] = "store"
                         /\ jobTrace[j] = "passed"
                         /\ jobNodes[j] = NumNodes
                         /\ cancelFlag[runOf(j)]

\* C9: cancel_run sets the flag and status cancelled for a queued, retry or running run
\* and changes neither the row nor the flag for a run in any other status.
C9_CancelOnlyActiveRuns ==
    [][\A r \in Runs :
          cancel_run(r) =>
              IF status[r] \in {"queued", "retry", "running"}
              THEN status'[r] = "cancelled" /\ cancelFlag'[r]
              ELSE UNCHANGED <<status, cancelFlag>>]_vars

\* C10: a request whose acquire failed has waited out the wait window, never called
\* execute_graph, inserted no run row, dispatched no job and was answered 429.
C10_BusyWithoutRunning ==
    \A q \in Reqs :
        reqAcquired[q] = "no" =>
            /\ reqWaited[q] >= WaitTicks
            /\ syncExecCalls[q] = 0
            /\ syncRecord[q] = "none"
            /\ syncEnqueued[q] = 0
            /\ reqResp[q] = 429

C10_Witness ==
    \E q \in Reqs : reqAcquired[q] = "no" /\ reqPc[q] = "done" /\ reqResp[q] = 429

\* C11: after a successful acquire redis_lock calls lock.release() exactly once when the
\* with block is left, whether its body returned or raised (never before, never after a
\* failed acquire), and a LockError raised by that release does not change how the block
\* ends: a body that returned goes on to persist its trace (answer 200), a body that
\* raised is answered 500.
C11_ReleaseOnceOutcomeKept ==
    \A q \in Reqs :
        /\ reqPc[q] \in {"idle", "acquire", "exec"} => reqReleases[q] = 0
        /\ reqAcquired[q] = "no" => reqReleases[q] = 0
        /\ (reqAcquired[q] = "yes" /\ reqPc[q] \in {"persist", "done"}) =>
                /\ reqReleases[q] = 1
                /\ reqTrace[q] = "raised" => (reqPc[q] = "done" /\ reqResp[q] = 500)
                /\ reqTrace[q] # "raised" =>
                        \/ reqPc[q] = "persist" /\ reqResp[q] = 0
                        \/ reqPc[q] = "done" /\ reqResp[q] = 200 /\ syncRecord[q] = reqTrace[q]

C11_Witness ==
    \E q \in Reqs :
        /\ reqReleaseError[q]
        /\ reqReleases[q] = 1
        /\ reqPc[q] = "done"
        /\ reqResp[q] = 200
        /\ reqTrace[q] \in TraceStatus

(***************************************************************************)
(* Claims about GraphRunner                                                *)
(***************************************************************************)
EdgeSet(edges) == {edges[k] : k \in 1..Len(edges)}
WellFormedEdges == \A e \in EdgeSet(graphEdges) :
                        e[1] \in DeclaredIds(graphNodes) /\ e[2] \in DeclaredIds(graphNodes)

RECURSIVE PathsWithin(_, _, _)
PathsWithin(R, E, k) ==
    IF k = 0 THEN R
    ELSE PathsWithin(R \cup {<<re[1][1], re[2][2]>> :
                                re \in {x \in R \X E : x[1][2] = x[2][1]}}, E, k - 1)

HasCycle(E) == \E x \in NodeIds : <<x, x>> \in PathsWithin(E, E, MaxNodes + 1)
DeclaredEdges == {e \in EdgeSet(graphEdges) :
                        e[1] \in DeclaredIds(graphNodes) /\ e[2] \in DeclaredIds(graphNodes)}
PositionIn(seq, x) == CHOOSE k \in 1..Len(seq) : seq[k] = x
Sorted == runPc \in {"loop", "node", "assert"} \/ (runPc = "returned" /\ trace_error # "cycles")

\* C12: for a graph whose edges join declared nodes and contain no cycle, the sort does
\* not fail and its result holds every declared id exactly once, with the source of every
\* edge before its target, also when an edge is listed more than once.
C12_SortIsTopologicalOrder ==
    (runPc \notin {"idle", "init", "sort", "raised"}
        /\ WellFormedEdges /\ ~HasCycle(EdgeSet(graphEdges))) =>
            /\ Sorted
            /\ Len(execution_order) = graphNodes
            /\ {execution_order[k] : k \in 1..Len(execution_order)} = DeclaredIds(graphNodes)
            /\ \A e \in EdgeSet(graphEdges) :
                    PositionIn(execution_order, e[1]) < PositionIn(execution_order, e[2])

C12_Witness ==
    /\ runPc = "loop"
    /\ graphNodes = MaxNodes
    /\ Len(graphEdges) = 2
    /\ graphEdges[1] = graphEdges[2]
    /\ execution_order = <<3, 1, 2>>

\* C13: when the edges between declared nodes contain a cycle (a self-loop included), the
\* returned trace has status error from the failed sort, no agent output, and every node
\* is still PENDING.
C13_CycleRunsNothing ==
    (runPc = "returned" /\ HasCycle(DeclaredEdges)) =>
        /\ trace_status = "error"
        /\ trace_error = "cycles"
        /\ agent_outputs = <<>>
        /\ \A x \in DeclaredIds(graphNodes) : node_states[x] = "pending"

\* C14: when an edge has a from or a to that no node declares, the returned trace has
\* status error and no agent output: no node was executed.
C14_UnknownEndpointRunsNothing ==
    (runPc = "returned" /\ ~WellFormedEdges) =>
        /\ trace_status = "error"
        /\ agent_outputs = <<>>
        /\ \A x \in DeclaredIds(graphNodes) : node_states[x] = "pending"

\* C15: in the order computed for a graph with edges between declared nodes, a node never
\* comes before a node with a smaller id that was ready (all its predecessors emitted) at
\* the time: ties are broken by ascending id, whatever the iteration order of node_ids.
C15_TiesByAscendingId ==
    (Sorted /\ WellFormedEdges) =>
        \A p, q \in 1..Len(execution_order) :
            (/\ p < q
             /\ \A e \in EdgeSet(graphEdges) :
                    e[2] = execution_order[q] => PositionIn(execution_order, e[1]) < p)
            => execution_order[p] < execution_order[q]

C17_RunNeverRaises ==
    /\ runPc # "raised"
    /\ runPc = "returned" =>
            /\ trace_status \in {"passed", "failed", "error"}
            /\ trace_error # "null" <=> trace_status = "error"

\* C18: with timeout_seconds set, a run whose elapsed time went beyond the budget while a
\* node was executing returns status error, whichever node it was (the last one
\* included), and starts no node once the budget is exceeded.
C18_TimeoutEndsInError ==
    /\ ~startedAfterBudget
    /\ (runPc = "returned" /\ timeout_set /\ over_budget) => trace_status = "error"

(***************************************************************************)
(* Claims about chaos mode                                                 *)
(***************************************************************************)
ChaosEnded(i) == chPc[i] \in {"done", "error"}

\* the agent outputs of a run of the loaded graph executed alone in the order `order` by
\* a runner seeded with `seed`, from its idx-th node on
RECURSIVE SoloOutputs(_, _, _, _, _)
SoloOutputs(order, idx, seed, k, outputs) ==
    IF idx > Len(order) THEN outputs
    ELSE LET node == order[idx]
             done == {outputs[n][1] : n \in 1..Len(outputs)}
             injected == inject_chaos(input_data(chaosInputs[node], done),
                                      seed, k, chaos_config)
         IN  SoloOutputs(order, idx + 1, seed, k + injected[2],
                         Append(outputs, <<node, injected[1]>>))

InputDataOf(i, node) == {chOutputs[i][n][2] : n \in {m \in 1..Len(chOutputs[i]) :
                                                        chOutputs[i][m][1] = node}}

\* C19: two finished chaos runs of the same graph with the same seed and the same
\* chaos_config ended the same way and recorded, for every node, the same input_data:
\* the same drop and corrupt decisions were made at every node.
C19_SameSeedSameDecisions ==
    \A i, j \in Runners :
        (/\ ChaosEnded(i) /\ ChaosEnded(j)
         /\ chMode[i] = "chaos" /\ chMode[j] = "chaos"
         /\ chSeed[i] = chSeed[j]) =>
            /\ chPc[i] = chPc[j]
            /\ \A node \in ChaosIds(chaosNodes) : InputDataOf(i, node) = InputDataOf(j, node)

\* C20: whatever other runners are constructed or executed in between, and with whatever
\* seeds, the outputs of a run (its drop and corrupt decisions, node by node) are those
\* of the same run executed alone with its own seed.
C20_DecisionsFromOwnSeed ==
    \A i \in Runners :
        (chMode[i] = "chaos" /\ chPc[i] \in {"running", "done"}) =>
            chOutputs[i] = SubSeq(SoloOutputs(chOrder[i], 1, chSeed[i], 0, <<>>),
                                  1, Len(chOutputs[i]))

C20_Witness ==
    /\ chPc[1] = "done"
    /\ chPc[2] = "done"
    /\ chMode[1] = "chaos"
    /\ chMode[2] = "chaos"
    /\ chSeed[1] # chSeed[2]
    /\ chOrder[1] = chOrder[2]
    /\ Len(chOrder[1]) = MaxChaosNodes
    /\ chOutputs[1] # chOutputs[2]
    /\ \E n \in 1..Len(chOutputs[1]) : \E m \in 1..Len(chOutputs[1][n][2]) :
            chOutputs[1][n][2][m][2] = "CORRUPTED_VALUE"
    /\ rngSeed[0] # chSeed[1]

(***************************************************************************)
(* Claims about the assertion engine and the contract validator            *)
(***************************************************************************)
\* C21: evaluate never raises; when it has returned there is one result per assertion,
\* in the order of the list, and an assertion that is no dict, has an unknown type or
\* whose handler throws has a result with passed = false.
C21_EvaluateNeverRaises ==
    /\ evalPc # "raised"
    /\ evalPc = "returned" =>
            /\ Len(evalResults) = Len(evalAssertions)
            /\ \A k \in 1..Len(evalAssertions) :
                    (\/ evalAssertions[k].shape # "dict"
                     \/ evalAssertions[k].type = "bogus"
                     \/ evalAssertions[k].behaviour = "throws") => ~evalResults[k].passed

\* C22: an assertion whose type is a name registered with register_custom (and not the
\* name of a built-in type) is evaluated by the registered handler: the handler is called
\* and the result carries the passed and the message it returned.
C22_CustomHandlerCalled ==
    evalPc = "returned" =>
        \A k \in 1..Len(evalAssertions) :
            (/\ evalAssertions[k].type \in custom_assertions
             /\ ~builtin_handler(evalAssertions[k].type)
             /\ evalAssertions[k].behaviour # "throws") =>
                /\ evalResults[k].handler = "custom"
                /\ evalResults[k].message = "from_handler"
                /\ evalResults[k].passed = (evalAssertions[k].behaviour = "pass")

\* C23: validate_input and validate_output never raise.
C23_ValidatorNeverRaises == valPc # "raised"

\* C24: every violation returned for a failed check of a contract has the severity
\* declared on the contract (the jsonschema package being installed).
C24_SeverityFromContract ==
    (valPc \in {"returned", "returned_twice"} /\ valContract.schema # "no_package") =>
        \A k \in 1..Len(valResult) : valResult[k].severity = valContract.severity

\* C25: after validate_input for a contract with required_fields, a violation is recorded
\* for a required field exactly when no output of a predecessor of the target present in
\* the context contains the field.
C25_RequiredFieldsOfPredecessors ==
    (valPc = "returned" /\ ~valData.present) =>
        \A f \in valContract.required_fields :
            (\E k \in 1..Len(valResult) :
                valResult[k].contract_type = "required_fields" /\ valResult[k].field = f)
            <=> f \notin UNION {valContext[n].fields :
                                    n \in {m \in valPreds : valContext[m].present}}

\* C30: two calls of validate_output with the same contract and the same output return
\* equal lists of violations.
C30_ValidateOutputTwiceEqual ==
    valPc = "returned_twice" => valFirst = valResult

(***************************************************************************)
(* C26: contract violations recorded during a run never change its control *)
(* flow: the loop over the order is left early only by an exception (the   *)
(* budget really exceeded, an id without node, a validator or a node that   *)
(* raises), every run that ends passed or failed has executed every node of *)
(* the order and evaluated the assertions, also with violations recorded,   *)
(* and with violations the status is failed.                                *)
(***************************************************************************)
C26_ViolationsAreNotControlFlow ==
    /\ [](runPc = "returned" /\ trace_status \in {"passed", "failed"}
            => /\ Len(agent_outputs) = Len(execution_order)
               /\ assertion_results # "none"
               /\ (contract_violations # NoViolations => trace_status = "failed"))
    /\ [][(runPc \in {"loop", "node", "assert"} /\ runPc' = "returned"
             /\ trace_status' = "error")
            => \/ trace_error' = "timeout" /\ timeout_set /\ over_budget
               \/ trace_error' = "KeyError"
                    /\ execution_order[loopIdx] \notin DeclaredIds(graphNodes)
               \/ trace_error' \in {"exception", "node"}]_vars
    /\ [][(runPc = "loop" /\ runPc' = "node")
            => /\ contract_violations \subseteq contract_violations'
               /\ node_states'[execution_order[loopIdx]] = "running"]_vars

C26_Witness ==
    /\ runPc = "returned"
    /\ trace_status = "failed"
    /\ contract_violations = Severities
    /\ Len(execution_order) = MaxNodes
    /\ Len(agent_outputs) = MaxNodes
    /\ assertion_results = "all_passed"

(***************************************************************************)
(* C27: in every trace returned by run(), agent_outputs follows the        *)
(* execution order: the i-th output is of the i-th node of the order, the  *)
(* list is the whole order when the status is passed or failed and a       *)
(* prefix of it when the status is error.                                   *)
(***************************************************************************)
C27_OutputsFollowOrder ==
    runPc = "returned" =>
        /\ Len(agent_outputs) <= Len(execution_order)
        /\ \A i \in 1..Len(agent_outputs) : agent_outputs[i] = execution_order[i]
        /\ trace_status \in {"passed", "failed"} => agent_outputs = execution_order
        /\ trace_status \in {"passed", "failed", "error"}

C27_Witness ==
    /\ runPc = "returned"
    /\ trace_status = "error"
    /\ Len(execution_order) = MaxNodes
    /\ Len(agent_outputs) = 2
    /\ agent_outputs[1] # 1
    /\ agent_outputs[1] > agent_outputs[2]

\* the log entries of a node as pairs <<from, to>>
Moves(id) ==
    [k \in 1..Len(transitions_of(id)) |->
        <<transitions_of(id)[k].from_state, transitions_of(id)[k].to_state>>]

Executed(id) == node_states[id] \in {"completed", "failed"}

OneRunning == Cardinality({x \in NodeIds : node_states[x] = "running"}) <= 1

NothingStartsAfterFailure ==
    \A i \in 1..Len(execution_order) : \A j \in (i + 1)..Len(execution_order) :
        node_states[execution_order[i]] = "failed"
            => node_states[execution_order[j]] \in {"pending", "absent"}

C29_LogOnlyGrows ==
    /\ [][/\ Len(transitions') > Len(transitions)
          /\ SubSeq(transitions', 1, Len(transitions)) = transitions]_vars
    /\ [][\A id \in SmIds, s \in NodeState :
            transition(id, s) => /\ node_states'[id] = s
                                 /\ transitions'[Len(transitions')] =
                                      StateTransition(id,
                                          IF state_of(id) = "absent" THEN "pending"
                                          ELSE state_of(id), s, "none")]_vars
    /\ [](\A id \in SmIds, s \in NodeState :
            Len(transitions) + 2 <= MaxLog => ENABLED transition(id, s))

C29_Witness ==
    /\ Len(transitions) = 3
    /\ transitions[1] = StateTransition(1, "pending", "pending", "initialized")
    /\ transitions[2] = StateTransition(1, "pending", "completed", "none")
    /\ transitions[3] = StateTransition(1, "completed", "pending", "none")
    /\ state_of(1) = "pending"
    /\ state_of(2) = "absent"

(***************************************************************************)
(* C31: for one enqueued job the task body is attempted at most            *)
(* 1 + max_retries times.                                                  *)
(***************************************************************************)
C31_AtMostFourAttempts ==
    \A j \in JobIds : jobAttempts[j] <= 1 + max_retries

(***************************************************************************)
(* C32: an attempt that is a retry of a failed attempt passes the guarded  *)
(* update and executes the graph: it returns skipped only when the run was *)
(* cancelled or deleted in the meantime.                                   *)
(***************************************************************************)
C32_RetriedAttemptExecutes ==
    \A j \in JobIds :
        (jobPc[j] = "skipped" /\ jobRetries[j] > 0)
            => status[runOf(j)] \in {"cancelled", "none"}

(***************************************************************************)
(* C33: a worker passes the guarded update only for a row with status      *)
(* queued, retry or running; when the update matches no row (another       *)
(* status, or no such row) the worker returns skipped, has executed no     *)
(* node, leaves the row and the notifications as they are, and the attempt *)
(* goes no further.                                                        *)
(***************************************************************************)
C33_SkipLeavesRunUntouched ==
    [][\A j \in JobIds :
          LET r == runOf(j)
          IN  /\ (jobPc[j] = "claimed" /\ jobPc'[j] = "exec")
                    => status[r] \in {"queued", "retry", "running"}
              /\ (jobPc[j] = "claimed" /\ jobPc'[j] = "skipped")
                    => /\ status[r] \notin {"queued", "retry", "running"}
                       /\ status'[r] = status[r]
                       /\ startedAt'[r] = startedAt[r]
                       /\ errorBy'[r] = errorBy[r]
                       /\ runFailedSent'[r] = runFailedSent[r]
                       /\ runCompletedSent'[r] = runCompletedSent[r]
                       /\ jobNodes'[j] = 0
                       /\ jobRetries'[j] = jobRetries[j]
              /\ jobPc[j] = "skipped"
                    => jobPc'[j] \notin {"claimed", "exec", "store", "handler"}]_vars

C33_Witness ==
    \E j \in JobIds :
        /\ jobPc[j] = "skipped"
        /\ status[runOf(j)] = "none"
        /\ webhook[runOf(j)]
        /\ runFailedSent[runOf(j)] = 0
        /\ runCompletedSent[runOf(j)] = 0

(***************************************************************************)
(* C36 as stated: whenever a worker is about to run the guarded update of  *)
(* a dispatched job the row of the run exists.                             *)
(***************************************************************************)
C36_GuardFindsRow ==
    \A j \in JobIds : jobPc[j] = "claimed" => status[runOf(j)] # "none"

(***************************************************************************)
(* C36 amended: the row is inserted with status queued and committed       *)
(* before the job is dispatched, the job carries the id of that row and    *)
(* the response that id with status queued; the row of a dispatched job is *)
(* missing only when delete_run has removed it.                            *)
(***************************************************************************)
C36_RowCommittedBeforeDispatch ==
    /\ [](\A j \in JobIds : jobPc[j] # "none" => runOf(j) <= numRuns)
    /\ [](\A r \in Runs : asyncResponse[r] = "queued"
                             => r <= numRuns /\ jobPc[<<r, "api">>] # "none")
    /\ [][\A r \in Runs :
             (jobPc[<<r, "api">>] = "none" /\ jobPc'[<<r, "api">>] # "none")
                => /\ jobPc'[<<r, "api">>] = "queued"
                   /\ status'[r] = "queued"
                   /\ numRuns' = r
                   /\ asyncResponse'[r] = "queued"]_vars
    /\ [][\A r \in Runs :
             (status[r] # "none" /\ status'[r] = "none") => delete_run(r)]_vars

C36_Witness ==
    /\ jobPc[<<1, "api">>] = "exec"
    /\ asyncResponse[1] = "queued"
    /\ status[1] = "running"

(***************************************************************************)
(* C37: once cancel_run has set status cancelled no worker changes the     *)
(* status (the row may be deleted).                                        *)
(***************************************************************************)
C37_CancelledIsKept ==
    [][\A r \in Runs :
          status[r] = "cancelled" => status'[r] \in {"cancelled", "none"}]_vars

(***************************************************************************)
(* C38: when execute_graph has returned a trace with status error and the  *)
(* worker stores it, the row gets status error from the trace, a           *)
(* run_completed notification is dispatched iff a webhook is set, no       *)
(* run_failed notification is dispatched, the retry count stays, and the   *)
(* finished job is not attempted again.                                    *)
(***************************************************************************)
C38_ErrorTraceFinishesJob ==
    [][\A j \in JobIds :
          LET r == runOf(j)
          IN  /\ (jobPc[j] = "store" /\ jobTrace[j] = "error" /\ jobPc'[j] = "finished")
                    => /\ status[r] # "none" => (status'[r] = "error" /\ errorBy'[r] = "trace")
                       /\ runCompletedSent'[r] =
                             runCompletedSent[r] + (IF webhook[r] THEN 1 ELSE 0)
                       /\ runFailedSent'[r] = runFailedSent[r]
                       /\ jobRetries'[j] = jobRetries[j]
              /\ jobPc[j] = "finished"
                    => jobPc'[j] \notin {"claimed", "exec", "store", "handler"}
              /\ (jobPc[j] = "finished" /\ j[2] = "api") => jobPc'[j] = "finished"]_vars

C38_Witness ==
    /\ jobPc[<<1, "api">>] = "finished"
    /\ status[1] = "error"
    /\ errorBy[1] = "trace"
    /\ webhook[1]
    /\ runCompletedSent[1] = 1
    /\ runFailedSent[1] = 0
    /\ jobRetries[<<1, "api">>] = 0

(***************************************************************************)
(* C34: a latency_under assertion with field latency_ms, or a cost_under   *)
(* assertion with field cost_usd, that targets a node executed in the run  *)
(* is evaluated against the measured latency_ms or cost_usd of the node's  *)
(* AgentOutput.                                                            *)
(***************************************************************************)
C34_MeasuredValueIsUsed ==
    (/\ resPc = "evaluated"
     /\ resOutput.executed
     /\ resAssertion.target = "A"
     /\ \/ resAssertion.type = "latency_under" /\ resAssertion.field = "latency_ms"
        \/ resAssertion.type = "cost_under" /\ resAssertion.field = "cost_usd")
        => /\ resActual = IF resAssertion.field = "latency_ms" THEN resOutput.latency_ms
                          ELSE resOutput.cost_usd
           /\ resPassed = (resActual < resAssertion.expected)

(***************************************************************************)
(* C35: in chaos mode with drop_rate 1.0, every node with at least one     *)
(* declared input present in the context gets an input_data from which     *)
(* exactly one key was removed; in every other mode input_data is exactly  *)
(* the map of the declared inputs present in the context.                  *)
(***************************************************************************)
\* the node ids executed by runner i before its n-th node
DoneBefore(i, n) == {chOutputs[i][k][1] : k \in 1..(n - 1)}

\* input_data of the n-th node of runner i as lines 234-237 build it
BuiltInput(i, n) == input_data(chaosInputs[chOutputs[i][n][1]], DoneBefore(i, n))

InputKeys(data) == {data[k][1] : k \in 1..Len(data)}

C35_DropRateOneRemovesOneKey ==
    \A i \in Runners : \A n \in 1..Len(chOutputs[i]) :
        LET given == chOutputs[i][n][2]
            built == BuiltInput(i, n)
        IN  /\ (chMode[i] = "chaos" /\ chaos_config.drop_rate = RngRange /\ built # <<>>)
                => /\ Len(given) = Len(built) - 1
                   /\ Cardinality(InputKeys(given)) = Len(given)
                   /\ InputKeys(given) \subseteq InputKeys(built)
            /\ chMode[i] # "chaos" => given = built

C35_Witness ==
    /\ chaos_config.drop_rate = RngRange
    /\ \E i \in Runners : \E n \in 1..Len(chOutputs[i]) :
          /\ chMode[i] = "chaos"
          /\ Len(BuiltInput(i, n)) = 1
          /\ chOutputs[i][n][2] = <<>>
    /\ \E i \in Runners : \E n \in 1..Len(chOutputs[i]) :
          /\ chMode[i] = "normal"
          /\ Len(BuiltInput(i, n)) = 1
          /\ chOutputs[i][n][2] = BuiltInput(i, n)

(***************************************************************************)
(* C39: in every reachable state of the ExecutionStateMachine, the current *)
(* state of each node is the to-state of its most recent log entry, and    *)
(* the from-state of each entry is the to-state of that node's previous    *)
(* entry (PENDING for its first entry), also when add_node is called for a *)
(* node that is already present.                                           *)
(***************************************************************************)
C39_LogMatchesStates ==
    \A id \in SmIds :
        LET log == transitions_of(id)
        IN  /\ state_of(id) # "absent" =>
                    /\ log # <<>>
                    /\ state_of(id) = log[Len(log)].to_state
            /\ \A k \in 1..Len(log) :
                    log[k].from_state = IF k = 1 THEN "pending" ELSE log[k - 1].to_state

(***************************************************************************)
(* C40: no node id occurs twice in agent_outputs; a trace with status      *)
(* passed or failed holds exactly one entry for every distinct node id of  *)
(* the graph; and the context holds an entry for a node exactly when the   *)
(* node has an entry in agent_outputs.                                     *)
(***************************************************************************)
OutputIds == {agent_outputs[k] : k \in 1..Len(agent_outputs)}

C40_OneOutputPerNode ==
    /\ Cardinality(OutputIds) = Len(agent_outputs)
    /\ trace_status \in {"passed", "failed"} => OutputIds = DeclaredIds(graphNodes)
    /\ run_context = OutputIds

C40_Witness ==
    /\ runPc = "returned"
    /\ trace_status = "passed"
    /\ graphNodes = MaxNodes
    /\ Len(graphEdges) = 2
    /\ graphEdges[1] = graphEdges[2]
    /\ run_context = DeclaredIds(graphNodes)

====
